---------------------------- MODULE Spec2Model ----------------------------
(***************************************************************************)
(* Model of .ci/compute_projects.py: the resolver that maps a list of      *)
(* changed file paths and a platform name to the projects, runtimes and    *)
(* check targets to build and test.                                        *)
(*                                                                         *)
(* The configuration tables (PROJECT_DEPENDENCIES ... SKIP_BUILD_PROJECTS) *)
(* are elided in compute_projects.py (line 8); they are reconstructed here *)
(* from the specification and from the expectations of                     *)
(* compute_projects_test.py.  Everything else is translated from the code. *)
(*                                                                         *)
(* The module also models the report generator of                          *)
(* .ci/generate_test_report_lib.py and the uploader of                     *)
(* .ci/premerge_advisor_upload.py.  Its specifications are Spec (calls of  *)
(* get_env_variables on one instance), OrderSpec (calls on rearranged      *)
(* lists), InterleavedSpec (calls that interleave statement by statement), *)
(* ClosureSpec (the loop of _add_dependencies), ReportSpec (the report     *)
(* generator) and UploadSpec (the advisor upload).                         *)
(***************************************************************************)
EXTENDS FiniteSets, Integers, Sequences, TLC

VARIABLES
    config,         \* the ProjectConfiguration instance: its attributes (self.*)
    meta_projects,  \* the module-level META_PROJECTS dict, in iteration order
    call,           \* frame of the latest get_env_variables call (locals, outcome)
    anchor,         \* frame of the first call on the instance
    last_call,      \* how the latest call relates to the first one
    generator,      \* the TestReportGenerator instance: self.failure_explanations
    report_call,    \* frame of the latest call on the generator
    closure,        \* frame of _add_dependencies, step by step
    sites,          \* frames of the get_env_variables calls in progress, per caller
    upload          \* frame of the latest main or upload_to_all_instances call

vars ==
    <<config, meta_projects, call, anchor, last_call, generator, report_call,
      closure, sites, upload>>

\* Longest list of changed files passed to the first call on an instance; a
\* later call may add one more file.
MaxFiles == 1

(***************************************************************************)
(* Configuration tables.                                                   *)
(***************************************************************************)
PROJECT_DEPENDENCIES ==
    "llvm" :> {} @@
    "clang" :> {"llvm"} @@
    "CIR" :> {"clang", "mlir"} @@
    "bolt" :> {"clang", "lld", "llvm"} @@
    "clang-tools-extra" :> {"clang", "llvm"} @@
    "compiler-rt" :> {"clang", "lld"} @@
    "libc" :> {"clang", "lld"} @@
    "openmp" :> {"clang", "lld"} @@
    "flang" :> {"llvm", "clang"} @@
    "flang-rt" :> {"flang"} @@
    "lldb" :> {"llvm", "clang"} @@
    "libclc" :> {"llvm", "clang"} @@
    "lld" :> {"llvm"} @@
    "mlir" :> {"llvm"} @@
    "polly" :> {"llvm"}

DEPENDENTS_TO_TEST ==
    "llvm" :> {"bolt", "clang", "clang-tools-extra", "lld", "lldb", "mlir",
               "polly", "flang"} @@
    "lld" :> {"bolt", "cross-project-tests"} @@
    "clang" :> {"clang-tools-extra", "cross-project-tests", "lldb"} @@
    "mlir" :> {"flang"} @@
    ".ci" :> {"llvm", "clang", "CIR", "lld", "lldb", "bolt", "clang-tools-extra",
              "mlir", "polly", "flang", "libclc", "openmp"}

DEPENDENT_RUNTIMES_TO_BUILD ==
    "lldb" :> {"libcxx", "libcxxabi", "libunwind"}

DEPENDENT_RUNTIMES_TO_TEST ==
    "clang" :> {"compiler-rt"} @@
    "clang-tools-extra" :> {"libc"} @@
    "libc" :> {"libc"} @@
    "compiler-rt" :> {"compiler-rt"} @@
    "flang" :> {"flang-rt"} @@
    "flang-rt" :> {"flang-rt"} @@
    ".ci" :> {"compiler-rt", "libc", "flang-rt"}

DEPENDENT_RUNTIMES_TO_TEST_NEEDS_RECONFIG ==
    "llvm" :> {"libcxx", "libcxxabi", "libunwind"} @@
    "clang" :> {"libcxx", "libcxxabi", "libunwind"} @@
    ".ci" :> {"libcxx", "libcxxabi", "libunwind"}

EXCLUDE_LINUX == {"cross-project-tests", "openmp"}

EXCLUDE_WINDOWS ==
    {"cross-project-tests", "openmp", "libc", "lldb", "bolt", "libcxx",
     "libcxxabi", "libunwind", "flang-rt"}

EXCLUDE_DEPENDENTS_WINDOWS == {"flang"}

EXCLUDE_MAC ==
    {"bolt", "compiler-rt", "cross-project-tests", "flang", "libc", "lldb",
     "openmp", "polly", "libcxx", "libcxxabi", "libunwind"}

PROJECT_CHECK_TARGETS ==
    "clang-tools-extra" :> "check-clang-tools" @@
    "compiler-rt" :> "check-compiler-rt" @@
    "cross-project-tests" :> "check-cross-project" @@
    "libcxx" :> "check-cxx" @@
    "libcxxabi" :> "check-cxxabi" @@
    "libunwind" :> "check-unwind" @@
    "lldb" :> "check-lldb" @@
    "llvm" :> "check-llvm" @@
    "clang" :> "check-clang" @@
    "CIR" :> "check-clang-cir" @@
    "bolt" :> "check-bolt" @@
    "lld" :> "check-lld" @@
    "flang" :> "check-flang" @@
    "flang-rt" :> "check-flang-rt" @@
    "libc" :> "check-libc" @@
    "mlir" :> "check-mlir" @@
    "openmp" :> "check-openmp" @@
    "polly" :> "check-polly" @@
    "lit" :> "check-lit"

RUNTIMES ==
    {"libcxx", "libcxxabi", "libunwind", "compiler-rt", "libc", "flang-rt"}

\* The dict META_PROJECTS as the sequence of its (pattern, project) items.
META_PROJECTS ==
    << <<<<"clang", "lib", "CIR">>, "CIR">>,
       <<<<"clang", "test", "CIR">>, "CIR">>,
       <<<<"clang", "include", "clang", "CIR">>, "CIR">>,
       <<<<"*", "docs">>, "docs">>,
       <<<<"llvm", "utils", "gn">>, "gn">>,
       <<<<".github", "workflows", "premerge.yaml">>, ".ci">>,
       <<<<"third-party">>, ".ci">>,
       <<<<"llvm", "utils", "lit">>, "lit">> >>

SKIP_PROJECTS == {"docs", "gn"}

SKIP_BUILD_PROJECTS == {"CIR", "lit"}

(***************************************************************************)
(* Strings.  Python compares str values by code point; CodePoints gives    *)
(* the code points of every name that can reach a sorted() call.           *)
(***************************************************************************)
CodePoints ==
    ".ci" :> <<46, 99, 105>> @@
    ".github" :> <<46, 103, 105, 116, 104, 117, 98>> @@
    "README.md" :> <<82, 69, 65, 68, 77, 69, 46, 109, 100>> @@
    "CIR" :> <<67, 73, 82>> @@
    "bolt" :> <<98, 111, 108, 116>> @@
    "check-bolt" :> <<99, 104, 101, 99, 107, 45, 98, 111, 108, 116>> @@
    "check-clang" :> <<99, 104, 101, 99, 107, 45, 99, 108, 97, 110, 103>> @@
    "check-clang-cir" :> <<99, 104, 101, 99, 107, 45, 99, 108, 97, 110, 103, 45, 99, 105, 114>> @@
    "check-clang-tools" :> <<99, 104, 101, 99, 107, 45, 99, 108, 97, 110, 103, 45, 116, 111, 111, 108, 115>> @@
    "check-compiler-rt" :> <<99, 104, 101, 99, 107, 45, 99, 111, 109, 112, 105, 108, 101, 114, 45, 114, 116>> @@
    "check-cross-project" :> <<99, 104, 101, 99, 107, 45, 99, 114, 111, 115, 115, 45, 112, 114, 111, 106, 101, 99, 116>> @@
    "check-cxx" :> <<99, 104, 101, 99, 107, 45, 99, 120, 120>> @@
    "check-cxxabi" :> <<99, 104, 101, 99, 107, 45, 99, 120, 120, 97, 98, 105>> @@
    "check-flang" :> <<99, 104, 101, 99, 107, 45, 102, 108, 97, 110, 103>> @@
    "check-flang-rt" :> <<99, 104, 101, 99, 107, 45, 102, 108, 97, 110, 103, 45, 114, 116>> @@
    "check-libc" :> <<99, 104, 101, 99, 107, 45, 108, 105, 98, 99>> @@
    "check-lit" :> <<99, 104, 101, 99, 107, 45, 108, 105, 116>> @@
    "check-lld" :> <<99, 104, 101, 99, 107, 45, 108, 108, 100>> @@
    "check-lldb" :> <<99, 104, 101, 99, 107, 45, 108, 108, 100, 98>> @@
    "check-llvm" :> <<99, 104, 101, 99, 107, 45, 108, 108, 118, 109>> @@
    "check-mlir" :> <<99, 104, 101, 99, 107, 45, 109, 108, 105, 114>> @@
    "check-openmp" :> <<99, 104, 101, 99, 107, 45, 111, 112, 101, 110, 109, 112>> @@
    "check-polly" :> <<99, 104, 101, 99, 107, 45, 112, 111, 108, 108, 121>> @@
    "check-unwind" :> <<99, 104, 101, 99, 107, 45, 117, 110, 119, 105, 110, 100>> @@
    "clang" :> <<99, 108, 97, 110, 103>> @@
    "clang-tools-extra" :> <<99, 108, 97, 110, 103, 45, 116, 111, 111, 108, 115, 45, 101, 120, 116, 114, 97>> @@
    "compiler-rt" :> <<99, 111, 109, 112, 105, 108, 101, 114, 45, 114, 116>> @@
    "cross-project-tests" :> <<99, 114, 111, 115, 115, 45, 112, 114, 111, 106, 101, 99, 116, 45, 116, 101, 115, 116, 115>> @@
    "docs" :> <<100, 111, 99, 115>> @@
    "flang" :> <<102, 108, 97, 110, 103>> @@
    "flang-rt" :> <<102, 108, 97, 110, 103, 45, 114, 116>> @@
    "gn" :> <<103, 110>> @@
    "libc" :> <<108, 105, 98, 99>> @@
    "libclc" :> <<108, 105, 98, 99, 108, 99>> @@
    "libcxx" :> <<108, 105, 98, 99, 120, 120>> @@
    "libcxxabi" :> <<108, 105, 98, 99, 120, 120, 97, 98, 105>> @@
    "libunwind" :> <<108, 105, 98, 117, 110, 119, 105, 110, 100>> @@
    "lit" :> <<108, 105, 116>> @@
    "lld" :> <<108, 108, 100>> @@
    "lldb" :> <<108, 108, 100, 98>> @@
    "llvm" :> <<108, 108, 118, 109>> @@
    "llvm-libgcc" :> <<108, 108, 118, 109, 45, 108, 105, 98, 103, 99, 99>> @@
    "mlir" :> <<109, 108, 105, 114>> @@
    "openmp" :> <<111, 112, 101, 110, 109, 112>> @@
    "polly" :> <<112, 111, 108, 108, 121>>


RECURSIVE SeqLess(_, _)
\* s < t for two sequences of code points (lexicographic, a proper prefix first).
SeqLess(s, t) ==
    IF t = <<>> THEN FALSE
    ELSE IF s = <<>> THEN TRUE
    ELSE IF Head(s) # Head(t) THEN Head(s) < Head(t)
    ELSE SeqLess(Tail(s), Tail(t))

\* a < b for two Python str values.
StrLess(a, b) == SeqLess(CodePoints[a], CodePoints[b])

RECURSIVE Insert(_, _)
Insert(x, s) ==
    IF s = <<>> THEN <<x>>
    ELSE IF StrLess(x, Head(s)) THEN <<x>> \o s
    ELSE <<Head(s)>> \o Insert(x, Tail(s))

RECURSIVE sorted(_)
\* sorted(iterable) of str values: the ascending list, every item as often as
\* the iterable gives it.  items maps what the iterable runs over (the
\* positions of a list, the members of a set) to the item given for it; each
\* item is put at its place among those already placed, so the list is the
\* same in whatever order the items arrive.
sorted(items) ==
    IF DOMAIN items = {} THEN <<>>
    ELSE LET first == CHOOSE k \in DOMAIN items : TRUE
         IN Insert(items[first],
                   sorted([k \in DOMAIN items \ {first} |-> items[k]]))

RECURSIVE join(_, _)
\* sep.join(items)
join(sep, items) ==
    IF items = <<>> THEN ""
    ELSE IF Len(items) = 1 THEN items[1]
    ELSE items[1] \o sep \o join(sep, Tail(items))

(***************************************************************************)
(* Inputs.  PathParts[f] is pathlib.Path(f).parts for each changed-file    *)
(* line the model feeds to the resolver; the blank line has no parts.      *)
(***************************************************************************)
PathParts ==
    "" :> <<>> @@
    "README.md" :> <<"README.md">> @@
    "llvm/CMakeLists.txt" :> <<"llvm", "CMakeLists.txt">> @@
    "clang/CMakeLists.txt" :> <<"clang", "CMakeLists.txt">> @@
    "clang/lib/CIR/CMakeLists.txt" :> <<"clang", "lib", "CIR", "CMakeLists.txt">> @@
    "flang/CMakeLists.txt" :> <<"flang", "CMakeLists.txt">> @@
    "compiler-rt/lib/asan/asan_allocator.cpp" :>
        <<"compiler-rt", "lib", "asan", "asan_allocator.cpp">> @@
    "llvm/docs/CIBestPractices.rst" :> <<"llvm", "docs", "CIBestPractices.rst">> @@
    "llvm/utils/gn/build/BUILD.gn" :> <<"llvm", "utils", "gn", "build", "BUILD.gn">> @@
    "third-party/docs/index.rst" :> <<"third-party", "docs", "index.rst">> @@
    "llvm/utils/lit/CMakeLists.txt" :> <<"llvm", "utils", "lit", "CMakeLists.txt">> @@
    ".ci/compute_projects.py" :> <<".ci", "compute_projects.py">> @@
    "llvm-libgcc/CMakeLists.txt" :> <<"llvm-libgcc", "CMakeLists.txt">> @@
    "libcxx/CMakeLists.txt" :> <<"libcxx", "CMakeLists.txt">> @@
    "mlir/CMakeLists.txt" :> <<"mlir", "CMakeLists.txt">> @@
    ".github/workflows/premerge.yaml" :> <<".github", "workflows", "premerge.yaml">> @@
    ".github/workflows/docs.yml" :> <<".github", "workflows", "docs.yml">> @@
    "llvm/utils" :> <<"llvm", "utils">>

\* The changed files of the calls made one after the other; the change to
\* mlir is passed by the callers that share an instance (SiteFiles).
Files == DOMAIN PathParts \ {"mlir/CMakeLists.txt"}

\* The three platforms with an exclusion set, and one without.
Platforms == {"Linux", "Windows", "Darwin", "FreeBSD"}

FileLists == UNION {[1..n -> Files] : n \in 0..MaxFiles}

Reverse(s) == [i \in 1..Len(s) |-> s[Len(s) + 1 - i]]

\* Iteration orders of META_PROJECTS the model considers.
MetaOrders == {META_PROJECTS, Reverse(META_PROJECTS)}

(***************************************************************************)
(* ProjectConfiguration                                                    *)
(***************************************************************************)
ProjectConfiguration ==
    [dependencies |-> PROJECT_DEPENDENCIES,
     dependents |-> DEPENDENTS_TO_TEST,
     runtime_deps |-> DEPENDENT_RUNTIMES_TO_BUILD,
     test_runtimes |-> DEPENDENT_RUNTIMES_TO_TEST,
     test_runtimes_reconfig |-> DEPENDENT_RUNTIMES_TO_TEST_NEEDS_RECONFIG,
     check_targets |-> PROJECT_CHECK_TARGETS,
     exclusions |-> [Linux |-> EXCLUDE_LINUX,
                     Windows |-> EXCLUDE_WINDOWS,
                     Darwin |-> EXCLUDE_MAC]]

\* One pass of the body of the while loop: every project of the snapshot
\* adds its dependencies.
ClosurePass(self, projects_with_deps) ==
    projects_with_deps \cup
        UNION {self.dependencies[project] :
                   project \in projects_with_deps \cap DOMAIN self.dependencies}

\* The loop with its condition inverted: it never runs for a non-empty set.
ClosureLoopInverted(self, projects_with_deps, current_count) ==
    IF current_count # Cardinality(projects_with_deps) THEN projects_with_deps
    ELSE ClosurePass(self, projects_with_deps)

RECURSIVE ClosureLoop(_, _, _)
\* while current_count != len(projects_with_deps): ...
ClosureLoop(self, projects_with_deps, current_count) ==
    IF current_count = Cardinality(projects_with_deps) THEN projects_with_deps
    ELSE ClosureLoop(self, ClosurePass(self, projects_with_deps),
                     Cardinality(projects_with_deps))

\* The runtimes' dependencies added before the while loop instead of after
\* it: the loop expands them too.
AddDependenciesExpanded(self, projects, runtimes) ==
    ClosureLoop(self,
                projects \cup
                    UNION {self.dependencies[runtime] :
                               runtime \in runtimes \cap DOMAIN self.dependencies},
                0)

\* "projects_with_deps = set()" in place of "set(projects)", the loop run
\* over the projects: the dependencies are returned without the projects
\* they were added for.
AddDependenciesOnly(self, projects, runtimes) ==
    UNION {self.dependencies[project] :
               project \in ClosureLoop(self, projects, 0)
                               \cap DOMAIN self.dependencies}
        \cup UNION {self.dependencies[runtime] :
                        runtime \in runtimes \cap DOMAIN self.dependencies}

_add_dependencies(self, projects, runtimes) ==
    ClosureLoop(self, projects, 0) \cup
        UNION {self.dependencies[runtime] :
                   runtime \in runtimes \cap DOMAIN self.dependencies}

_exclude_platform_projects(self, projects, platform_name) ==
    projects \ (IF platform_name \in DOMAIN self.exclusions
                THEN self.exclusions[platform_name] ELSE {})

\* "if project in self.check_targets" left out: every modified project that
\* is not a runtime is tested.
ProjectsToTestUnchecked(self, modified_projects, platform_name) ==
    LET Tested(project) ==
            IF project \in RUNTIMES THEN {}
            ELSE {project}
                 \cup
                 (IF project \in DOMAIN self.dependents
                  THEN IF platform_name = "Windows"
                       THEN self.dependents[project] \ EXCLUDE_DEPENDENTS_WINDOWS
                       ELSE self.dependents[project]
                  ELSE {})
    IN _exclude_platform_projects(
           self, UNION {Tested(project) : project \in modified_projects},
           platform_name)

\* "if project in RUNTIMES: continue" left out: a modified runtime is treated
\* like any other project.
ProjectsToTestWithRuntimes(self, modified_projects, platform_name) ==
    LET Tested(project) ==
            (IF project \in DOMAIN self.check_targets THEN {project} ELSE {})
            \cup
            (IF project \in DOMAIN self.dependents
             THEN IF platform_name = "Windows"
                  THEN self.dependents[project] \ EXCLUDE_DEPENDENTS_WINDOWS
                  ELSE self.dependents[project]
             ELSE {})
    IN _exclude_platform_projects(
           self, UNION {Tested(project) : project \in modified_projects},
           platform_name)

\* 'if platform_name == "Windows"' left out: EXCLUDE_DEPENDENTS_WINDOWS is
\* taken from the dependents on every platform.
ProjectsToTestCutEverywhere(self, modified_projects, platform_name) ==
    LET Tested(project) ==
            IF project \in RUNTIMES THEN {}
            ELSE (IF project \in DOMAIN self.check_targets THEN {project} ELSE {})
                 \cup
                 (IF project \in DOMAIN self.dependents
                  THEN self.dependents[project] \ EXCLUDE_DEPENDENTS_WINDOWS
                  ELSE {})
    IN _exclude_platform_projects(
           self, UNION {Tested(project) : project \in modified_projects},
           platform_name)

_compute_projects_to_test(self, modified_projects, platform_name) ==
    LET Tested(project) ==
            IF project \in RUNTIMES THEN {}
            ELSE (IF project \in DOMAIN self.check_targets THEN {project} ELSE {})
                 \cup
                 (IF project \in DOMAIN self.dependents
                  THEN IF platform_name = "Windows"
                       THEN self.dependents[project] \ EXCLUDE_DEPENDENTS_WINDOWS
                       ELSE self.dependents[project]
                  ELSE {})
    IN _exclude_platform_projects(
           self, UNION {Tested(project) : project \in modified_projects},
           platform_name)

_compute_runtimes_to_test(self, modified_projects, platform_name) ==
    _exclude_platform_projects(
        self,
        UNION {self.test_runtimes[project] :
                   project \in modified_projects \cap DOMAIN self.test_runtimes},
        platform_name)

_compute_runtimes_to_test_needs_reconfig(self, modified_projects, platform_name) ==
    _exclude_platform_projects(
        self,
        UNION {self.test_runtimes_reconfig[project] :
                   project \in modified_projects \cap DOMAIN self.test_runtimes_reconfig},
        platform_name)

\* "runtimes_to_build = set()" in place of "set(runtimes_to_test)": only the
\* build dependencies of the modified projects are kept.
RuntimesToBuildFromDepsOnly(self, runtimes_to_test, modified_projects, platform_name) ==
    _exclude_platform_projects(
        self,
        UNION {self.runtime_deps[project] :
                   project \in modified_projects \cap DOMAIN self.runtime_deps},
        platform_name)

_compute_runtimes_to_build(self, runtimes_to_test, modified_projects, platform_name) ==
    _exclude_platform_projects(
        self,
        runtimes_to_test \cup
            UNION {self.runtime_deps[project] :
                       project \in modified_projects \cap DOMAIN self.runtime_deps},
        platform_name)

\* The length test left out: zip() stops at the shorter tuple, so a path that
\* is a proper prefix of the pattern matches.
PathMatchesZipOnly(matcher, file_path) ==
    \A i \in 1..Len(matcher) :
        i <= Len(file_path) => matcher[i] \in {"*", file_path[i]}

_path_matches(matcher, file_path) ==
    /\ Len(file_path) >= Len(matcher)
    /\ \A i \in 1..Len(matcher) : matcher[i] \in {"*", file_path[i]}

\* The for loop over META_PROJECTS.items() with "continue" in place of
\* "return set()": a skipped project is left out, the scan goes on.
RECURSIVE MetaLoopNoReturn(_, _, _, _)
MetaLoopNoReturn(meta, i, path_parts, modified_projects) ==
    IF i > Len(meta) THEN [skipped |-> FALSE, projects |-> modified_projects]
    ELSE IF _path_matches(meta[i][1], path_parts) /\ meta[i][2] \notin SKIP_PROJECTS
    THEN MetaLoopNoReturn(meta, i + 1, path_parts,
                          modified_projects \cup {meta[i][2]})
    ELSE MetaLoopNoReturn(meta, i + 1, path_parts, modified_projects)

RECURSIVE MetaLoop(_, _, _, _)
\* The for loop over META_PROJECTS.items(), from item i on; skipped is the
\* early "return set()".
MetaLoop(meta, i, path_parts, modified_projects) ==
    IF i > Len(meta) THEN [skipped |-> FALSE, projects |-> modified_projects]
    ELSE IF _path_matches(meta[i][1], path_parts)
    THEN IF meta[i][2] \in SKIP_PROJECTS
         THEN [skipped |-> TRUE, projects |-> {}]
         ELSE MetaLoop(meta, i + 1, path_parts,
                       modified_projects \cup {meta[i][2]})
    ELSE MetaLoop(meta, i + 1, path_parts, modified_projects)

\* raised: path_parts[0] on an empty tuple raises IndexError.
_get_modified_projects_for_file(meta, modified_file) ==
    LET path_parts == PathParts[modified_file]
        loop == MetaLoop(meta, 1, path_parts, {})
    IN IF loop.skipped THEN [raised |-> FALSE, projects |-> {}]
       ELSE IF path_parts = <<>> THEN [raised |-> TRUE, projects |-> {}]
       ELSE [raised |-> FALSE, projects |-> loop.projects \cup {path_parts[1]}]

RECURSIVE FilesLoop(_, _, _, _, _)
\* The for loop of get_modified_projects, from file i on; per_file keeps what
\* _get_modified_projects_for_file gave for each file reached.
FilesLoop(meta, modified_files, i, modified_projects, per_file) ==
    IF i > Len(modified_files)
    THEN [raised |-> FALSE, projects |-> modified_projects, per_file |-> per_file]
    ELSE LET r == _get_modified_projects_for_file(meta, modified_files[i])
         IN IF r.raised
            THEN [raised |-> TRUE, projects |-> modified_projects,
                  per_file |-> Append(per_file, r)]
            ELSE FilesLoop(meta, modified_files, i + 1,
                           modified_projects \cup r.projects,
                           Append(per_file, r))

\* "modified_projects = ..." in place of "modified_projects.update(...)": the
\* projects of the last file replace those of the files before it.
GetModifiedProjectsLastFile(meta, modified_files) ==
    LET every == FilesLoop(meta, modified_files, 1, {}, <<>>)
    IN IF every.raised \/ modified_files = <<>> THEN every
       ELSE [every EXCEPT !.projects = every.per_file[Len(modified_files)].projects]

get_modified_projects(meta, modified_files) ==
    FilesLoop(meta, modified_files, 1, {}, <<>>)

\* The discard loop left out.
DiscardNothing(projects_to_build) == projects_to_build

\* for project in SKIP_BUILD_PROJECTS: projects_to_build.discard(project)
DiscardSkipBuild(projects_to_build) == projects_to_build \ SKIP_BUILD_PROJECTS

\* The two literals exchanged.
EnableCirSwapped(projects_to_build) ==
    IF "CIR" \in projects_to_build THEN "OFF" ELSE "ON"

\* 'ON' if 'CIR' in projects_to_build else 'OFF'
EnableCir(projects_to_build) ==
    IF "CIR" \in projects_to_build THEN "ON" ELSE "OFF"

\* The targets looked up after sorting the projects:
\* [self.check_targets[p] for p in sorted(members) if p in self.check_targets]
CheckTargetsByProject(self, members) ==
    LET with_target == sorted([p \in members \cap DOMAIN self.check_targets |-> p])
    IN [i \in 1..Len(with_target) |-> self.check_targets[with_target[i]]]

\* sorted(self.check_targets[p] for p in members if p in self.check_targets)
CheckTargets(self, members) ==
    sorted([p \in members \cap DOMAIN self.check_targets |-> self.check_targets[p]])

EnvKeys ==
    {"projects_to_build", "project_check_targets", "runtimes_to_build",
     "runtimes_check_targets", "runtimes_check_targets_needs_reconfig",
     "enable_cir"}

NoSets ==
    [modified_projects |-> {}, projects_to_test |-> {}, runtimes_to_test |-> {},
     runtimes_to_test_reconfig |-> {}, runtimes_to_build |-> {},
     projects_to_build |-> {}, project_check_targets |-> <<>>,
     runtimes_check_targets |-> <<>>,
     runtimes_check_targets_needs_reconfig |-> <<>>]

\* The frame before any call.
NoCall ==
    [outcome |-> "none", modified_files |-> <<>>, platform_name |-> "",
     per_file |-> <<>>, env_vars |-> [k \in {} |-> ""]] @@ NoSets

\* The frame of get_env_variables(modified_files, platform_name): its locals
\* and what it returns (env_vars), or outcome "raised" when the IndexError of
\* _get_modified_projects_for_file propagates.
get_env_variables(self, meta, modified_files, platform_name) ==
    LET modified == get_modified_projects(meta, modified_files)
        modified_projects == modified.projects
        projects_to_test ==
            _compute_projects_to_test(self, modified_projects, platform_name)
        runtimes_to_test ==
            _compute_runtimes_to_test(self, modified_projects, platform_name)
        runtimes_to_test_reconfig ==
            _compute_runtimes_to_test_needs_reconfig(
                self, modified_projects, platform_name)
        runtimes_to_build ==
            _compute_runtimes_to_build(
                self, runtimes_to_test \cup runtimes_to_test_reconfig,
                modified_projects, platform_name)
        projects_to_build ==
            DiscardSkipBuild(
                _add_dependencies(self, projects_to_test, runtimes_to_build))
        project_check_targets == CheckTargets(self, projects_to_test)
        runtimes_check_targets == CheckTargets(self, runtimes_to_test)
        runtimes_check_targets_needs_reconfig ==
            CheckTargets(self, runtimes_to_test_reconfig)
        input == [modified_files |-> modified_files,
                  platform_name |-> platform_name,
                  per_file |-> modified.per_file]
    IN IF modified.raised
       THEN [outcome |-> "raised", env_vars |-> [k \in {} |-> ""]]
                @@ input @@ NoSets
       ELSE [outcome |-> "returned",
             modified_projects |-> modified_projects,
             projects_to_test |-> projects_to_test,
             runtimes_to_test |-> runtimes_to_test,
             runtimes_to_test_reconfig |-> runtimes_to_test_reconfig,
             runtimes_to_build |-> runtimes_to_build,
             projects_to_build |-> projects_to_build,
             project_check_targets |-> project_check_targets,
             runtimes_check_targets |-> runtimes_check_targets,
             runtimes_check_targets_needs_reconfig |->
                 runtimes_check_targets_needs_reconfig,
             env_vars |->
                 [projects_to_build |-> join(";", sorted([p \in projects_to_build |-> p])),
                  project_check_targets |-> join(" ", project_check_targets),
                  runtimes_to_build |-> join(";", sorted([p \in runtimes_to_build |-> p])),
                  runtimes_check_targets |-> join(" ", runtimes_check_targets),
                  runtimes_check_targets_needs_reconfig |->
                      join(" ", runtimes_check_targets_needs_reconfig),
                  enable_cir |-> EnableCir(projects_to_build)]]
                @@ input

(***************************************************************************)
(* generate_test_report_lib.py                                             *)
(*                                                                         *)
(* Reports are built from Python str values, kept here as TLA+ strings of  *)
(* the same length; every character of the texts below is ASCII, so Len    *)
(* is the number of UTF-8 bytes.  A TLA+ string cannot hold the grave      *)
(* accent (U+0060): the markdown fence and the label quotes are written    *)
(* with "~" in its place.                                                  *)
(***************************************************************************)
SEE_BUILD_FILE_STR == "Download the build's log file to see the details."

UNRELATED_FAILURES_STR ==
    "If these failures are unrelated to your changes (for example "
    \o "tests are broken or flaky at HEAD), please open an issue at "
    \o "https://github.com/llvm/llvm-project/issues and add the "
    \o "~infrastructure~ label."

NINJA_LOG_SIZE_THRESHOLD == 500

\* Longest ninja log, in lines, and longest list of ninja logs.
MaxLogLen == 3

MaxLogs == 1

\* Longest list of JUnit objects.
MaxSuites == 1

\* The lines a ninja log is made of, each with the prefixes among "FAILED:",
\* "[" and "ninja: build stopped:" it starts with, and with what
\* line.split("FAILED: ") gives.
LogLineTable ==
    "[1/2] test/1.stamp" :>
        [prefixes |-> {"["}, split |-> <<"[1/2] test/1.stamp">>] @@
    "FAILED: touch test/1.stamp" :>
        [prefixes |-> {"FAILED:"}, split |-> <<"", "touch test/1.stamp">>] @@
    "FAILED:" :>
        [prefixes |-> {"FAILED:"}, split |-> <<"FAILED:">>] @@
    "ninja: build stopped: subcommand failed." :>
        [prefixes |-> {"ninja: build stopped:"},
         split |-> <<"ninja: build stopped: subcommand failed.">>] @@
    "Wow! This system is really broken!" :>
        [prefixes |-> {}, split |-> <<"Wow! This system is really broken!">>]

NinjaLogs == UNION {[1..n -> DOMAIN LogLineTable] : n \in 0..MaxLogLen}

NinjaLogLists == UNION {[1..n -> NinjaLogs] : n \in 0..MaxLogs}

\* line.startswith(prefix)
startswith(line, prefix) == prefix \in LogLineTable[line].prefixes

\* line.split("FAILED: ")
split(line) == LogLineTable[line].split

\* Test suites (<testsuite> elements) as junitparser gives them: the
\* attributes name, tests, skipped and failures of the suite, and its test
\* cases (iterating a suite gives them) with the kind of their first result
\* and its text.  A test case has is_passed, result, classname and name; a
\* suite has none of them.
PassedSuite ==
    [name |-> "Passed", tests |-> 1, skipped |-> 0, failures |-> 0,
     cases |-> <<[classname |-> "Bar/test_1", name |-> "test_1",
                  result |-> "passed", text |-> ""]>>]

FailedSuite ==
    [name |-> "Bar", tests |-> 1, skipped |-> 0, failures |-> 1,
     cases |-> <<[classname |-> "Bar/test_1", name |-> "test_1",
                  result |-> "Failure", text |-> "Test failure message"]>>]

RECURSIVE Times(_, _)
\* The Python str s * n.
Times(s, n) ==
    IF n = 0 THEN ""
    ELSE LET half == Times(s, n \div 2)
         IN half \o half \o (IF n % 2 = 1 THEN s ELSE "")

\* large_output = "x" * 5000
large_output == Times("x", 5000)

\* The suite whose one failure has an output that makes the report larger
\* than a size_limit of 512.
LargeSuite ==
    [name |-> "Bar", tests |-> 1, skipped |-> 0, failures |-> 1,
     cases |-> <<[classname |-> "Bar/test_1", name |-> "test_1",
                  result |-> "Failure", text |-> large_output]>>]

MixedSuite ==
    [name |-> "Bar", tests |-> 4, skipped |-> 1, failures |-> 2,
     cases |-> <<[classname |-> "Bar/test_1", name |-> "test_1",
                  result |-> "passed", text |-> ""],
                 [classname |-> "Bar/test_2", name |-> "test_2",
                  result |-> "Skipped", text |-> ""],
                 [classname |-> "Bar/test_3", name |-> "test_3",
                  result |-> "Failure", text |-> "Output goes here"],
                 [classname |-> "Bar/test_4", name |-> "test_4",
                  result |-> "Failure", text |-> "Other output goes here"]>>]

\* The suite of test_report_with_passing_tests.
TwoPassedSuite ==
    [name |-> "Suite1", tests |-> 2, skipped |-> 0, failures |-> 0,
     cases |-> <<[classname |-> "Class1", name |-> "test1",
                  result |-> "passed", text |-> ""],
                 [classname |-> "Class1", name |-> "test2",
                  result |-> "passed", text |-> ""]>>]

\* The suite of test_get_test_failures_from_junit; it has no skipped
\* attribute, and none of its test cases is skipped.
OneOfTwoFailedSuite ==
    [name |-> "Suite1", tests |-> 2, skipped |-> 0, failures |-> 1,
     cases |-> <<[classname |-> "Class1", name |-> "test1",
                  result |-> "Failure", text |-> "Failure message"],
                 [classname |-> "Class1", name |-> "test2",
                  result |-> "passed", text |-> ""]>>]

\* What JUnitXml.fromfile gives is the root element of the file.  For a
\* file whose root is <testsuites> that is the document: iterating it gives
\* its suites, and it has no test case of its own.  These are the documents
\* the tests make with junit_from_xml, and the one load_info_from_files
\* reads in the end-to-end test: one suite each.
JUnitDocuments ==
    {[testsuites |-> <<suite>>] :
         suite \in {PassedSuite, FailedSuite, LargeSuite, MixedSuite,
                    TwoPassedSuite, OneOfTwoFailedSuite}}

\* The roots of files whose root is <testsuite>: the suite itself.
JUnitSuites == {PassedSuite, FailedSuite, LargeSuite, MixedSuite}

JUnitLists ==
    UNION {[1..n -> JUnitDocuments \cup JUnitSuites] : n \in 0..MaxSuites}

ReturnCodes == {0, 1}

\* The size limits passed; the last is the default, size_limit: int = 1024 * 1024
SizeLimits == {256, 512, 1024 * 1024}

ExplanationLists ==
    {<<>>,
     <<[name |-> "Bar/test_1/test_1", explained |-> TRUE,
        reason |-> "This is a known issue"],
       [name |-> "touch test/1.stamp", explained |-> FALSE, reason |-> ""]>>}

RECURSIVE str(_)
\* str(n) for an int.
str(n) ==
    LET digits == <<"0", "1", "2", "3", "4", "5", "6", "7", "8", "9">>
    IN IF n < 0 THEN "-" \o str(0 - n)
       ELSE IF n < 10 THEN digits[n + 1]
       ELSE str(n \div 10) \o digits[(n % 10) + 1]

RECURSIVE SkipToFailed(_, _)
\* while index < len(ninja_log) and
\*       not ninja_log[index].startswith("FAILED:"): index += 1
\* index counts from 0, as in the code; ninja_log[index] is ninja_log[index + 1].
SkipToFailed(ninja_log, index) ==
    IF index < Len(ninja_log) /\ ~startswith(ninja_log[index + 1], "FAILED:")
    THEN SkipToFailed(ninja_log, index + 1)
    ELSE index

RECURSIVE FailureLog(_, _, _)
\* The inner while loop that collects the lines of one failure.
FailureLog(ninja_log, index, failure_log) ==
    IF /\ index < Len(ninja_log)
       /\ ~startswith(ninja_log[index + 1], "[")
       /\ ~startswith(ninja_log[index + 1], "ninja: build stopped:")
       /\ Len(failure_log) < NINJA_LOG_SIZE_THRESHOLD
    THEN FailureLog(ninja_log, index + 1,
                    Append(failure_log, ninja_log[index + 1]))
    ELSE [failure_log |-> failure_log, index |-> index]

RECURSIVE ParseLoop(_, _, _)
\* The outer while loop, from index on; raised is the IndexError of
\* split("FAILED: ")[1] on a line with no "FAILED: " in it.
ParseLoop(ninja_log, from, failures) ==
    IF from >= Len(ninja_log) THEN [raised |-> FALSE, failures |-> failures]
    ELSE LET index == SkipToFailed(ninja_log, from)
         IN IF index >= Len(ninja_log)
            THEN [raised |-> FALSE, failures |-> failures]
            ELSE IF index > 0
                    /\ startswith(ninja_log[index], "ninja: build stopped:")
            THEN ParseLoop(ninja_log, index + 1, failures)
            ELSE IF Len(split(ninja_log[index + 1])) < 2
            THEN [raised |-> TRUE, failures |-> failures]
            ELSE LET failing_action == split(ninja_log[index + 1])[2]
                     block == FailureLog(ninja_log, index, <<>>)
                 IN ParseLoop(ninja_log, block.index,
                              Append(failures,
                                     <<failing_action,
                                       join("\n", block.failure_log)>>))

_parse_ninja_log(ninja_log) == ParseLoop(ninja_log, 0, <<>>)

RECURSIVE LogsLoop(_, _, _)
LogsLoop(ninja_logs, i, all_failures) ==
    IF i > Len(ninja_logs) THEN [raised |-> FALSE, failures |-> all_failures]
    ELSE LET parsed == _parse_ninja_log(ninja_logs[i])
         IN IF parsed.raised
            THEN [raised |-> TRUE, failures |-> all_failures]
            ELSE LogsLoop(ninja_logs, i + 1, all_failures \o parsed.failures)

find_failures_in_ninja_logs(ninja_logs) == LogsLoop(ninja_logs, 1, <<>>)

\* {exp["name"]: exp for exp in failure_explanations if exp["explained"]}
ExplanationsDict(failure_explanations) ==
    LET explained == {i \in 1..Len(failure_explanations) :
                          failure_explanations[i].explained}
        Last(name) == CHOOSE i \in explained :
                          /\ failure_explanations[i].name = name
                          /\ \A j \in explained :
                                 failure_explanations[j].name = name => j <= i
    IN [name \in {failure_explanations[i].name : i \in explained} |->
            failure_explanations[Last(name)]]

\* self is the generator's failure_explanations dict.
_format_failure_details(self, failure) ==
    LET failed_action == failure[1]
        failure_message == failure[2]
    IN <<"<details>">>
       \o (IF failed_action \in DOMAIN self /\ self[failed_action].explained
           THEN <<"<summary>" \o failed_action
                      \o " (Likely Already Failing)</summary>",
                  "", self[failed_action].reason, "">>
           ELSE <<"<summary>" \o failed_action \o "</summary>", "">>)
       \o <<"~~~", failure_message, "~~~", "</details>">>

\* failures[suite_name].append(item) on a dict kept as the sequence of its
\* (key, list) items, a new key going last.
DictAppend(failures, suite_name, item) ==
    IF \E i \in 1..Len(failures) : failures[i][1] = suite_name
    THEN [i \in 1..Len(failures) |->
             IF failures[i][1] = suite_name
             THEN <<suite_name, Append(failures[i][2], item)>>
             ELSE failures[i]]
    ELSE Append(failures, <<suite_name, <<item>>>>)

RECURSIVE CasesLoop(_, _, _)
\* for test_case in test_suite, from the i-th object the iteration gives on:
\* the test cases of a suite, the suites of a document.  raised is the
\* AttributeError of test_case.is_passed on an object that is no test case.
CasesLoop(test_suite, i, failures) ==
    LET given == IF "testsuites" \in DOMAIN test_suite
                 THEN test_suite.testsuites ELSE test_suite.cases
    IN IF i > Len(given) THEN [raised |-> FALSE, failures |-> failures]
       ELSE LET test_case == given[i]
            IN IF "result" \notin DOMAIN test_case
               THEN [raised |-> TRUE, failures |-> failures]
               ELSE IF test_case.result = "Failure"
               THEN CasesLoop(test_suite, i + 1,
                              DictAppend(failures, test_suite.name,
                                         <<test_case.classname \o "/"
                                               \o test_case.name,
                                           test_case.text>>))
               ELSE CasesLoop(test_suite, i + 1, failures)

RECURSIVE SuitesLoop(_, _, _)
\* for test_suite in junit_objects, from the i-th object on.
SuitesLoop(junit_objects, i, failures) ==
    IF i > Len(junit_objects) THEN [raised |-> FALSE, failures |-> failures]
    ELSE LET looped == CasesLoop(junit_objects[i], 1, failures)
         IN IF looped.raised THEN looped
            ELSE SuitesLoop(junit_objects, i + 1, looped.failures)

\* The dict as the sequence of its items; raised when the call raises.
get_test_failures(junit_objects) == SuitesLoop(junit_objects, 1, <<>>)

plural(count) == IF count = 1 THEN "test" ELSE "tests"

_generate_summary_section(tests_run, tests_skipped, tests_failed) ==
    LET tests_passed == tests_run - tests_skipped - tests_failed
    IN (IF tests_passed # 0
        THEN <<"* " \o str(tests_passed) \o " " \o plural(tests_passed) \o " passed">>
        ELSE <<>>)
       \o (IF tests_skipped # 0
           THEN <<"* " \o str(tests_skipped) \o " " \o plural(tests_skipped)
                      \o " skipped">>
           ELSE <<>>)
       \o (IF tests_failed # 0
           THEN <<"* " \o str(tests_failed) \o " " \o plural(tests_failed)
                      \o " failed">>
           ELSE <<>>)

RECURSIVE DetailsLoop(_, _, _)
\* for failure in failures: section.extend(self._format_failure_details(failure))
DetailsLoop(self, failures, i) ==
    IF i > Len(failures) THEN <<>>
    ELSE _format_failure_details(self, failures[i])
         \o DetailsLoop(self, failures, i + 1)

RECURSIVE SuiteSections(_, _, _)
SuiteSections(self, failures, i) ==
    IF i > Len(failures) THEN <<>>
    ELSE <<"", "### " \o failures[i][1]>>
         \o DetailsLoop(self, failures[i][2], 1)
         \o SuiteSections(self, failures, i + 1)

_generate_failures_section(self, failures) ==
    IF failures = <<>> THEN <<>>
    ELSE <<"", "## Failed Tests", "(click on a test name to see its output)">>
         \o SuiteSections(self, failures, 1)

_generate_ninja_failures_section(self, ninja_failures) ==
    IF ninja_failures = <<>> THEN <<>>
    ELSE <<"",
           "The build failed before running any tests. Click on a failure "
               \o "below to see the details.",
           "">>
         \o DetailsLoop(self, ninja_failures, 1)

RECURSIVE SumOf(_, _)
\* tests_run += test_suite.tests, and the like, over junit_objects.  The
\* root of a document carries no such attribute in the file; junitparser
\* gives for it the sum over the suites of the document.
SumOf(junit_objects, attribute) ==
    IF junit_objects = <<>> THEN 0
    ELSE LET test_suite == Head(junit_objects)
         IN (IF "testsuites" \in DOMAIN test_suite
             THEN SumOf(test_suite.testsuites, attribute)
             ELSE test_suite[attribute])
            + SumOf(Tail(junit_objects), attribute)

TOO_LARGE_STR ==
    "Failed tests and their output was too large to report. "
        \o SEE_BUILD_FILE_STR

\* One run of the body of generate_report, up to the size check: the report
\* list it built, whether it returns before the size check (no test ran),
\* and the exception it raises, if any: the IndexError of
\* find_failures_in_ninja_logs or the AttributeError of get_test_failures.
ReportBody(self, title, return_code, junit_objects, ninja_logs, list_failures) ==
    LET tests_run == SumOf(junit_objects, "tests")
        tests_skipped == SumOf(junit_objects, "skipped")
        tests_failed == SumOf(junit_objects, "failures")
        head == <<"# " \o title, "">>
        found == find_failures_in_ninja_logs(ninja_logs)
        ninja_failures == found.failures
        looked == get_test_failures(junit_objects)
        test_failures == looked.failures
        summary ==
            _generate_summary_section(tests_run, tests_skipped, tests_failed)
        tail == IF test_failures # <<>> \/ return_code # 0
                THEN <<"", UNRELATED_FAILURES_STR>> ELSE <<>>
        Out(early, error, report) ==
            [early |-> early, raised |-> error # "", error |-> error,
             report |-> report]
    IN IF tests_run = 0
       THEN IF return_code = 0
            THEN Out(TRUE, "",
                     head \o <<"The build succeeded and no tests ran. This is "
                                   \o "expected in some build configurations.">>)
            ELSE IF found.raised THEN Out(TRUE, "IndexError", head)
            ELSE IF ninja_failures = <<>>
            THEN Out(TRUE, "",
                     head \o <<"The build failed before running any tests. "
                                   \o "Detailed information about the build "
                                   \o "failure could not be automatically obtained.",
                               "", SEE_BUILD_FILE_STR, "",
                               UNRELATED_FAILURES_STR>>)
            ELSE Out(TRUE, "",
                     head \o _generate_ninja_failures_section(self, ninja_failures)
                          \o <<"", UNRELATED_FAILURES_STR>>)
       ELSE IF looked.raised THEN Out(FALSE, "AttributeError", head \o summary)
       ELSE IF ~list_failures
       THEN Out(FALSE, "", head \o summary \o <<"", TOO_LARGE_STR>> \o tail)
       ELSE IF test_failures # <<>>
       THEN Out(FALSE, "",
                head \o summary
                     \o _generate_failures_section(self, test_failures) \o tail)
       ELSE IF return_code # 0
       THEN IF found.raised THEN Out(FALSE, "IndexError", head \o summary)
            ELSE IF ninja_failures = <<>>
            THEN Out(FALSE, "",
                     head \o summary
                          \o <<"",
                               "All tests passed but another part of the build "
                                   \o "**failed**. Information about the build "
                                   \o "failure could not be automatically obtained.",
                               "", SEE_BUILD_FILE_STR>>
                          \o tail)
            ELSE Out(FALSE, "",
                     head \o summary
                          \o <<"",
                               "All tests passed but another part of the build "
                                   \o "**failed**. Click on a failure below to "
                                   \o "see the details.",
                               "">>
                          \o _generate_ninja_failures_section(self, ninja_failures)
                          \o tail)
       ELSE Out(FALSE, "", head \o summary \o tail)

\* len(report_str.encode("utf-8"))
EncodedLen(report_str) == Len(report_str)

\* The frame before any call on the generator.
NoReportCall ==
    [op |-> "none", outcome |-> "none", error |-> "", title |-> "",
     return_code |-> 0,
     junit_objects |-> <<>>, ninja_logs |-> <<>>, size_limit |-> 0,
     list_failures |-> TRUE, failure_explanations |-> <<>>,
     failures |-> <<>>, first_report |-> <<>>, report |-> <<>>,
     report_str |-> "", passes |-> 0]

\* The frame of generate_report(...): first_report is the list built by the
\* outermost run of the body, report and report_str what is returned, passes
\* the number of runs of the body (2 after the recursive call with
\* list_failures=False).  The recursive call passes no failure_explanations.
generate_report(title, return_code, junit_objects, ninja_logs, size_limit, list_failures, failure_explanations) ==
    LET self == ExplanationsDict(failure_explanations)
        first == ReportBody(self, title, return_code, junit_objects,
                            ninja_logs, list_failures)
        again == /\ ~first.early
                 /\ ~first.raised
                 /\ EncodedLen(join("\n", first.report)) > size_limit
                 /\ list_failures
        second == ReportBody(ExplanationsDict(<<>>), title, return_code,
                             junit_objects, ninja_logs, FALSE)
        last == IF again THEN second ELSE first
    IN [op |-> "generate_report",
        outcome |-> IF last.raised THEN "raised" ELSE "returned",
        error |-> last.error,
        title |-> title, return_code |-> return_code,
        junit_objects |-> junit_objects, ninja_logs |-> ninja_logs,
        size_limit |-> size_limit, list_failures |-> list_failures,
        failure_explanations |-> failure_explanations,
        failures |-> <<>>,
        first_report |-> first.report,
        report |-> IF last.raised THEN <<>> ELSE last.report,
        report_str |-> IF last.raised THEN "" ELSE join("\n", last.report),
        passes |-> IF again THEN 2 ELSE 1]

(***************************************************************************)
(* The while loop of _add_dependencies, one iteration at a time, on any    *)
(* dependency graph over a few names.                                      *)
(***************************************************************************)
\* Number of project names the graphs are drawn over.
MaxNames == 2

NameList == <<"llvm", "clang", "lld", "mlir">>

ProjectNames == {NameList[i] : i \in 1..MaxNames}

\* Every dict from some of the names to sets of names: cycles and
\* self-dependencies included.
Graphs == UNION {[K -> SUBSET ProjectNames] : K \in SUBSET ProjectNames}

\* The sets of runtimes passed: none, or one name.  The graphs and the sets
\* of projects are all those over the names, so which name it is makes no
\* difference.
RuntimeSets == {{}, {NameList[1]}}

\* The frame of the loop when _add_dependencies is not running.
NoClosure ==
    [pc |-> "idle", dependencies |-> <<>>, projects |-> {}, runtimes |-> {},
     projects_with_deps |-> {}, current_count |-> 0]

\* projects_with_deps = set(projects); current_count = 0
EnterAddDependencies(dependencies, projects, runtimes) ==
    [pc |-> "while", dependencies |-> dependencies, projects |-> projects,
     runtimes |-> runtimes, projects_with_deps |-> projects,
     current_count |-> 0]

\* The loop body with "current_count = len(projects_with_deps)" left out.
WhileBodyCountKept(frame) ==
    [frame EXCEPT
        !.projects_with_deps =
            ClosurePass([dependencies |-> frame.dependencies], @)]

\* One iteration of the while loop: the count is taken, then every project
\* of the snapshot adds its dependencies.
WhileBody(frame) ==
    [frame EXCEPT
        !.current_count = Cardinality(frame.projects_with_deps),
        !.projects_with_deps =
            ClosurePass([dependencies |-> frame.dependencies], @)]

\* The for loop over the runtimes, after the while loop: every runtime that
\* is a key of the graph adds its direct dependencies; the function then
\* returns projects_with_deps.
ForRuntimes(frame) ==
    [frame EXCEPT
        !.pc = "done",
        !.projects_with_deps =
            @ \cup UNION {frame.dependencies[runtime] :
                              runtime \in frame.runtimes
                                              \cap DOMAIN frame.dependencies}]

(***************************************************************************)
(* get_env_variables on references, one statement at a time, for callers   *)
(* that share one ProjectConfiguration.  A Python name holds a reference   *)
(* to an object: self.dependents[project] is the set stored in the table,  *)
(* not a copy of it, and add, update and discard change the object they    *)
(* are called on, whoever else holds a reference to it.  A statement of    *)
(* one caller can run between two statements of another; every statement   *)
(* reads the tables as they are when it runs.                              *)
(***************************************************************************)
\* The call sites that share the instance.
Callers == {"a", "b"}

\* The changed files and platforms the concurrent callers pass.
SiteFiles ==
    {"", "mlir/CMakeLists.txt", "flang/CMakeLists.txt"}

SiteFileLists == UNION {[1..n -> SiteFiles] : n \in 0..MaxFiles}

SitePlatforms == {"Linux", "Windows"}

RECURSIVE IterationOrders(_)
\* The orders in which one run can meet the members of a set (for loops,
\* list(...), generators): the order depends on the hashes of the strings,
\* which differ from one interpreter run to the next, so a set of n members
\* can be met in each of its n! orders.  An order is written as the choices
\* that produce it: order[j] tells which of the j members not yet met comes
\* next, counted from 0 in ascending order of the names.  These are the
\* orders of the sets of at most width members.
IterationOrders(width) ==
    IF width = 0 THEN {<<>>}
    ELSE {Append(order, choice) :
              order \in IterationOrders(width - 1), choice \in 0..(width - 1)}

RECURSIVE IterateIn(_, _)
\* The members of a set as one iteration meets them.
IterateIn(order, members) ==
    IF members = {} THEN <<>>
    ELSE LET ascending == sorted([p \in members |-> p])
             left == Len(ascending)
             met == ascending[(IF left <= Len(order) THEN order[left] ELSE 0) + 1]
         IN <<met>> \o IterateIn(order, members \ {met})

\* A reference is <<attribute, key>> for the set self.<attribute>[key] and
\* <<InCall, site>> for a set made inside the call by the expression at
\* that line.
InCall == "made in the call"

Created(site) == <<InCall, site>>

Entry(attribute, key) == <<attribute, key>>

\* m is the memory a statement runs on: the tables of the instance (self)
\* and the frame of the call, with the sets made in the call (objects) and
\* the reference each local name of get_env_variables holds (vars).
Value(m, ref) ==
    IF ref[1] = InCall THEN m.frame.objects[ref[2]] ELSE m.self[ref[1]][ref[2]]

\* The object behind ref now holds value: every name and every table entry
\* that refers to the object sees it.
Store(m, ref, value) ==
    IF ref[1] = InCall
    THEN [m EXCEPT !.frame.objects = (ref[2] :> value) @@ @]
    ELSE [m EXCEPT !.self[ref[1]][ref[2]] = value]

\* set(), set(members), a - b and a | b: a new set.
NewSet(m, site, members) == Store(m, Created(site), members)

\* target.update(members)
update(m, target, members) == Store(m, target, Value(m, target) \cup members)

\* target.add(member)
add(m, target, member) == Store(m, target, Value(m, target) \cup {member})

\* target.discard(member)
discard(m, target, member) == Store(m, target, Value(m, target) \ {member})

\* name = <expression>: the name refers to the object of the expression.
Bind(m, name, ref) == [m EXCEPT !.frame.vars = (name :> ref) @@ @]

\* The sets no name of the frame refers to any more are freed.
Collect(m) ==
    LET held == {m.frame.vars[name][2] : name \in DOMAIN m.frame.vars}
    IN [m EXCEPT !.frame.objects = [site \in DOMAIN @ \cap held |-> @[site]]]

\* return projects - self.exclusions.get(platform_name, set()); the result
\* is a new set, named after the line the helper was called from.
RunExcludePlatformProjects(m, projects, platform_name, site) ==
    NewSet(m, site,
           Value(m, projects)
               \ (IF platform_name \in DOMAIN m.self.exclusions
                  THEN Value(m, Entry("exclusions", platform_name))
                  ELSE {}))

\* "dependents -= EXCLUDE_DEPENDENTS_WINDOWS" in place of
\* "dependents = dependents - EXCLUDE_DEPENDENTS_WINDOWS": the difference is
\* taken in the set dependents refers to, which is the table's.
ProjectsToTestBodyInPlace(m, project, platform_name) ==
    LET projects_to_test == Created("line 49")
    IN IF project \in RUNTIMES THEN m
       ELSE LET added == IF project \in DOMAIN m.self.check_targets
                         THEN add(m, projects_to_test, project)
                         ELSE m
            IN IF project \in DOMAIN added.self.dependents
               THEN LET dependents == Entry("dependents", project)
                    IN IF platform_name = "Windows"
                       THEN LET cut == Store(added, dependents,
                                             Value(added, dependents)
                                                 \ EXCLUDE_DEPENDENTS_WINDOWS)
                            IN update(cut, projects_to_test,
                                      Value(cut, dependents))
                       ELSE update(added, projects_to_test,
                                   Value(added, dependents))
               ELSE added

\* The body of the for loop of _compute_projects_to_test for one project.
\* dependents first refers to the table's set (line 59); on Windows line 61
\* makes a new set and dependents refers to that one from then on.
ProjectsToTestBody(m, project, platform_name) ==
    LET projects_to_test == Created("line 49")
    IN IF project \in RUNTIMES THEN m
       ELSE LET added == IF project \in DOMAIN m.self.check_targets
                         THEN add(m, projects_to_test, project)
                         ELSE m
            IN IF project \in DOMAIN added.self.dependents
               THEN LET dependents == Entry("dependents", project)
                    IN IF platform_name = "Windows"
                       THEN LET cut == NewSet(added, "line 61",
                                              Value(added, dependents)
                                                  \ EXCLUDE_DEPENDENTS_WINDOWS)
                            IN update(cut, projects_to_test,
                                      Value(cut, Created("line 61")))
                       ELSE update(added, projects_to_test,
                                   Value(added, dependents))
               ELSE added

RECURSIVE ProjectsToTestLoop(_, _, _, _)
\* for project in modified_projects, from the i-th project met on.
ProjectsToTestLoop(m, projects, i, platform_name) ==
    IF i > Len(projects) THEN m
    ELSE ProjectsToTestLoop(ProjectsToTestBody(m, projects[i], platform_name),
                            projects, i + 1, platform_name)

\* _compute_projects_to_test; what it returns is Created("line 45 from line 64").
RunComputeProjectsToTest(m, modified_projects, platform_name, order) ==
    LET made == NewSet(m, "line 49", {})
        looped == ProjectsToTestLoop(
                      made, IterateIn(order, Value(made, modified_projects)),
                      1, platform_name)
    IN RunExcludePlatformProjects(looped, Created("line 49"), platform_name,
                                  "line 45 from line 64")

RECURSIVE UpdateLoop(_, _, _, _, _)
\* for key in keys: if key in self.<attribute>:
\*     target.update(self.<attribute>[key]), from the i-th key met on.
UpdateLoop(m, target, attribute, keys, i) ==
    IF i > Len(keys) THEN m
    ELSE UpdateLoop(IF keys[i] \in DOMAIN m.self[attribute]
                    THEN update(m, target, Value(m, Entry(attribute, keys[i])))
                    ELSE m,
                    target, attribute, keys, i + 1)

\* _compute_runtimes_to_test; it returns Created("line 45 from line 74").
RunComputeRuntimesToTest(m, modified_projects, platform_name, order) ==
    LET made == NewSet(m, "line 68", {})
        looped == UpdateLoop(made, Created("line 68"), "test_runtimes",
                             IterateIn(order, Value(made, modified_projects)), 1)
    IN RunExcludePlatformProjects(looped, Created("line 68"), platform_name,
                                  "line 45 from line 74")

\* _compute_runtimes_to_test_needs_reconfig; it returns
\* Created("line 45 from line 84").
RunComputeRuntimesToTestNeedsReconfig(m, modified_projects, platform_name, order) ==
    LET made == NewSet(m, "line 78", {})
        looped == UpdateLoop(made, Created("line 78"), "test_runtimes_reconfig",
                             IterateIn(order, Value(made, modified_projects)), 1)
    IN RunExcludePlatformProjects(looped, Created("line 78"), platform_name,
                                  "line 45 from line 84")

\* _compute_runtimes_to_build; it returns Created("line 45 from line 94").
RunComputeRuntimesToBuild(m, runtimes_to_test, modified_projects, platform_name, order) ==
    LET made == NewSet(m, "line 88", Value(m, runtimes_to_test))
        looped == UpdateLoop(made, Created("line 88"), "runtime_deps",
                             IterateIn(order, Value(made, modified_projects)), 1)
    IN RunExcludePlatformProjects(looped, Created("line 88"), platform_name,
                                  "line 45 from line 94")

RECURSIVE RunClosureLoop(_, _, _)
\* while current_count != len(projects_with_deps): the for loop runs over
\* list(projects_with_deps), the members at the start of the pass.
RunClosureLoop(m, current_count, order) ==
    LET projects_with_deps == Created("line 28")
        count == Cardinality(Value(m, projects_with_deps))
    IN IF current_count = count THEN m
       ELSE RunClosureLoop(
                UpdateLoop(m, projects_with_deps, "dependencies",
                           IterateIn(order, Value(m, projects_with_deps)), 1),
                count, order)

\* _add_dependencies; it returns projects_with_deps, Created("line 28").
RunAddDependencies(m, projects, runtimes, order) ==
    LET made == NewSet(m, "line 28", Value(m, projects))
        closed == RunClosureLoop(made, 0, order)
    IN UpdateLoop(closed, Created("line 28"), "dependencies",
                  IterateIn(order, Value(closed, runtimes)), 1)

RECURSIVE RunMetaLoop(_, _, _, _)
\* The for loop over META_PROJECTS.items(), from item i on; skipped is the
\* early "return set()".
RunMetaLoop(m, meta, i, path_parts) ==
    IF i > Len(meta) THEN [m |-> m, skipped |-> FALSE]
    ELSE IF _path_matches(meta[i][1], path_parts)
    THEN IF meta[i][2] \in SKIP_PROJECTS
         THEN [m |-> NewSet(m, "line 104", {}), skipped |-> TRUE]
         ELSE RunMetaLoop(add(m, Created("line 98"), meta[i][2]), meta, i + 1,
                          path_parts)
    ELSE RunMetaLoop(m, meta, i + 1, path_parts)

\* _get_modified_projects_for_file; result is the set it returns, raised
\* the IndexError of path_parts[0].
RunGetModifiedProjectsForFile(m, meta, modified_file) ==
    LET path_parts == PathParts[modified_file]
        loop == RunMetaLoop(NewSet(m, "line 98", {}), meta, 1, path_parts)
    IN IF loop.skipped
       THEN [m |-> loop.m, raised |-> FALSE, result |-> Created("line 104")]
       ELSE IF path_parts = <<>>
       THEN [m |-> loop.m, raised |-> TRUE, result |-> Created("line 98")]
       ELSE [m |-> add(loop.m, Created("line 98"), path_parts[1]),
             raised |-> FALSE, result |-> Created("line 98")]

RECURSIVE RunFilesLoop(_, _, _, _)
\* The for loop of get_modified_projects, from file i on.
RunFilesLoop(m, meta, modified_files, i) ==
    IF i > Len(modified_files) THEN [m |-> m, raised |-> FALSE]
    ELSE LET file == RunGetModifiedProjectsForFile(m, meta, modified_files[i])
         IN IF file.raised THEN [m |-> file.m, raised |-> TRUE]
            ELSE RunFilesLoop(update(file.m, Created("line 124"),
                                     Value(file.m, file.result)),
                              meta, modified_files, i + 1)

\* get_modified_projects; it returns modified_projects, Created("line 124").
RunGetModifiedProjects(m, meta, modified_files) ==
    RunFilesLoop(NewSet(m, "line 124", {}), meta, modified_files, 1)

RECURSIVE DiscardLoop(_, _, _, _)
\* for project in SKIP_BUILD_PROJECTS: projects_to_build.discard(project)
DiscardLoop(m, target, projects, i) ==
    IF i > Len(projects) THEN m
    ELSE DiscardLoop(discard(m, target, projects[i]), target, projects, i + 1)

\* "sorted" left out: the names are joined in the order the set gives them.
JoinAsIterated(sep, order, members) == join(sep, IterateIn(order, members))

\* ';'.join(sorted(members))
JoinSorted(sep, order, members) == join(sep, sorted(IterateIn(order, members)))

\* sorted(self.check_targets[p] for p in members if p in self.check_targets)
RunCheckTargets(m, members, order) ==
    LET met == IterateIn(order, Value(m, members))
        with_target == SelectSeq(met, LAMBDA p : p \in DOMAIN m.self.check_targets)
    IN sorted([i \in 1..Len(with_target) |-> m.self.check_targets[with_target[i]]])

\* The statements of get_env_variables, in program order.
Statements ==
    <<"get_modified_projects", "_compute_projects_to_test",
      "_compute_runtimes_to_test", "_compute_runtimes_to_test_needs_reconfig",
      "_compute_runtimes_to_build", "_add_dependencies", "discard", "return">>

\* The statement after pc.
NextStatement(pc) ==
    LET i == CHOOSE k \in 1..Len(Statements) : Statements[k] = pc
    IN IF i = Len(Statements) THEN "done" ELSE Statements[i + 1]

\* A caller with no call in progress.
NoSite ==
    [pc |-> "idle", concurrent |-> FALSE, met |-> "none", outcome |-> "none",
     modified_files |-> <<>>, platform_name |-> "", vars |-> <<>>,
     objects |-> <<>>, env_vars |-> [k \in {} |-> ""]]

NoSites == [caller \in Callers |-> NoSite]

\* A caller has entered get_env_variables and not left it.
InProgress(frame) == frame.pc \notin {"idle", "done"}

\* The set a local name of the frame refers to.
Local(frame, name) == frame.objects[frame.vars[name][2]]

\* The frame on entry; concurrent records that another caller's call was in
\* progress at that moment.
EnterGetEnvVariables(modified_files, platform_name, concurrent) ==
    [NoSite EXCEPT !.pc = Statements[1],
                   !.outcome = "running",
                   !.concurrent = concurrent,
                   !.modified_files = modified_files,
                   !.platform_name = platform_name]

\* The memory after the statement at frame.pc has run on the tables self,
\* the sets met in the given order; the frame records how the return
\* statement met the members of projects_to_build: in ascending order, in
\* descending order, or in neither.
StatementStep(self, meta, frame, order) ==
    LET m == [self |-> self, frame |-> frame]
        pc == frame.pc
        MetIn(names) ==
            IF names = sorted(names) THEN "ascending"
            ELSE IF names = Reverse(sorted(names)) THEN "descending"
            ELSE "neither"
        platform_name == frame.platform_name
        Named(name) == frame.vars[name]
        Assigned(after, name, ref) ==
            Collect(Bind([after EXCEPT !.frame.pc = NextStatement(pc)], name, ref))
    IN CASE pc = "get_modified_projects" ->
              LET modified == RunGetModifiedProjects(m, meta, frame.modified_files)
              IN IF modified.raised
                 THEN Collect([modified.m EXCEPT !.frame.pc = "done",
                                                 !.frame.outcome = "raised"])
                 ELSE Assigned(modified.m, "modified_projects", Created("line 124"))
         [] pc = "_compute_projects_to_test" ->
              Assigned(RunComputeProjectsToTest(
                           m, Named("modified_projects"), platform_name, order),
                       "projects_to_test", Created("line 45 from line 64"))
         [] pc = "_compute_runtimes_to_test" ->
              Assigned(RunComputeRuntimesToTest(
                           m, Named("modified_projects"), platform_name, order),
                       "runtimes_to_test", Created("line 45 from line 74"))
         [] pc = "_compute_runtimes_to_test_needs_reconfig" ->
              Assigned(RunComputeRuntimesToTestNeedsReconfig(
                           m, Named("modified_projects"), platform_name, order),
                       "runtimes_to_test_reconfig", Created("line 45 from line 84"))
         [] pc = "_compute_runtimes_to_build" ->
              LET joined == NewSet(m, "line 140",
                                   Value(m, Named("runtimes_to_test"))
                                       \cup Value(m, Named("runtimes_to_test_reconfig")))
              IN Assigned(RunComputeRuntimesToBuild(
                              joined, Created("line 140"),
                              Named("modified_projects"), platform_name, order),
                          "runtimes_to_build", Created("line 45 from line 94"))
         [] pc = "_add_dependencies" ->
              Assigned(RunAddDependencies(m, Named("projects_to_test"),
                                          Named("runtimes_to_build"), order),
                       "projects_to_build", Created("line 28"))
         [] pc = "discard" ->
              [DiscardLoop(m, Named("projects_to_build"),
                           IterateIn(order, SKIP_BUILD_PROJECTS), 1)
                  EXCEPT !.frame.pc = NextStatement(pc)]
         [] pc = "return" ->
              [m EXCEPT
                  !.frame.pc = "done",
                  !.frame.outcome = "returned",
                  !.frame.met =
                      MetIn(IterateIn(order, Value(m, Named("projects_to_build")))),
                  !.frame.env_vars =
                      [projects_to_build |->
                           JoinSorted(";", order, Value(m, Named("projects_to_build"))),
                       project_check_targets |->
                           join(" ", RunCheckTargets(m, Named("projects_to_test"), order)),
                       runtimes_to_build |->
                           JoinSorted(";", order, Value(m, Named("runtimes_to_build"))),
                       runtimes_check_targets |->
                           join(" ", RunCheckTargets(m, Named("runtimes_to_test"), order)),
                       runtimes_check_targets_needs_reconfig |->
                           join(" ", RunCheckTargets(
                                         m, Named("runtimes_to_test_reconfig"), order)),
                       enable_cir |->
                           EnableCir(Value(m, Named("projects_to_build")))]]

\* The number of members of the largest set the statement at frame.pc
\* iterates over, 0 when it iterates over none or no call is in progress:
\* get_modified_projects runs over a list and a dict only; each pass of the
\* while loop of _add_dependencies runs over the members projects_with_deps
\* has by then, which are among those it has in the end.
Widest(self, meta, frame) ==
    LET pc == frame.pc
        iterated ==
            CASE pc \in {"idle", "done", "get_modified_projects"} -> {}
              [] pc \in {"_compute_projects_to_test", "_compute_runtimes_to_test",
                         "_compute_runtimes_to_test_needs_reconfig",
                         "_compute_runtimes_to_build"} ->
                   {Local(frame, "modified_projects")}
              [] pc = "_add_dependencies" ->
                   {Local(StatementStep(self, meta, frame, <<>>).frame,
                          "projects_to_build"),
                    Local(frame, "runtimes_to_build")}
              [] pc = "discard" -> {SKIP_BUILD_PROJECTS}
              [] pc = "return" ->
                   {Local(frame, name) :
                        name \in {"projects_to_build", "projects_to_test",
                                  "runtimes_to_build", "runtimes_to_test",
                                  "runtimes_to_test_reconfig"}}
        sizes == {Cardinality(members) : members \in iterated}
    IN IF sizes = {} THEN 0
       ELSE CHOOSE n \in sizes : \A k \in sizes : k <= n

(***************************************************************************)
(* premerge_advisor_upload.py                                              *)
(***************************************************************************)
PREMERGE_ADVISOR_URLS ==
    <<"http://34.82.126.63:5000/upload", "http://136.114.125.23:5000/upload">>

\* The urls argument of PremergeAdvisorUploader: left out (None, written
\* <<>> as the empty list is), one URL, and the default URLs reversed.
UrlsArguments ==
    {<<>>, <<"http://localhost:5000/upload">>, Reverse(PREMERGE_ADVISOR_URLS)}

\* self.urls = urls or PREMERGE_ADVISOR_URLS
Uploader(urls) == [urls |-> IF urls = <<>> THEN PREMERGE_ADVISOR_URLS ELSE urls]

\* What one requests.post and raise_for_status can do: a 2xx response, a
\* response with an error status (raise_for_status raises HTTPError), or
\* no response (post raises ConnectionError or Timeout); error is the text
\* of the exception.
Answers ==
    {[kind |-> "ok", error |-> ""],
     [kind |-> "error_status", error |-> "500 Server Error"],
     [kind |-> "request_exception", error |-> "Connection refused"]}

\* "GITHUB_ACTIONS" in os.environ, platform.system() and platform.machine()
Environments ==
    {[github_actions |-> TRUE, system |-> "Linux", machine |-> "x86_64"],
     [github_actions |-> FALSE, system |-> "Linux", machine |-> "x86_64"],
     [github_actions |-> TRUE, system |-> "Windows", machine |-> "AMD64"],
     [github_actions |-> FALSE, system |-> "Darwin", machine |-> "arm64"]}

\* str.lower() on the platform strings of the environments.
lower(string) ==
    ("Linux-x86_64" :> "linux-x86_64" @@
     "Windows-AMD64" :> "windows-amd64" @@
     "Darwin-arm64" :> "darwin-arm64")[string]

\* The (name, message) pairs of a list as the dicts appended to "failures".
FailureDicts(pairs) ==
    [i \in 1..Len(pairs) |-> [name |-> pairs[i][1], message |-> pairs[i][2]]]

RECURSIVE SuiteFailures(_, _)
\* for suite_failures in test_failures.values(): ..., from suite i on
SuiteFailures(test_failures, i) ==
    IF i > Len(test_failures) THEN <<>>
    ELSE FailureDicts(test_failures[i][2]) \o SuiteFailures(test_failures, i + 1)

\* FailureDataPreparer.prepare_upload_data, on what load_info_from_files
\* read; error is the AttributeError of get_test_failures or the IndexError
\* of find_failures_in_ninja_logs, neither of which the method catches.
prepare_upload_data(environment, commit_sha, workflow_run_number, junit_objects, ninja_logs) ==
    LET looked == get_test_failures(junit_objects)
        test_failures == SuiteFailures(looked.failures, 1)
        ninja_failures == find_failures_in_ninja_logs(ninja_logs)
        upload_data ==
            [source_type |-> IF environment.github_actions
                             THEN "pull_request" ELSE "postcommit",
             base_commit_sha |-> commit_sha,
             source_id |-> workflow_run_number,
             failures |-> test_failures,
             platform |-> lower(environment.system \o "-" \o environment.machine)]
    IN IF looked.raised
       THEN [raised |-> TRUE, error |-> "AttributeError",
             upload_data |-> upload_data]
       ELSE IF test_failures # <<>>
       THEN [raised |-> FALSE, error |-> "", upload_data |-> upload_data]
       ELSE IF ninja_failures.raised
       THEN [raised |-> TRUE, error |-> "IndexError", upload_data |-> upload_data]
       ELSE [raised |-> FALSE, error |-> "",
             upload_data |->
                 [upload_data EXCEPT
                     !.failures = FailureDicts(ninja_failures.failures)]]

\* The payload before prepare_upload_data has built one.
NoData ==
    [source_type |-> "", base_commit_sha |-> "", source_id |-> "",
     failures |-> <<>>, platform |-> ""]

\* The frame when upload_to_all_instances is not running.
NoUpload ==
    [pc |-> "idle", outcome |-> "none", error |-> "", entered |-> FALSE,
     urls |-> <<>>,
     junit_objects |-> <<>>, ninja_logs |-> <<>>, upload_data |-> NoData,
     index |-> 0, posts |-> <<>>, printed |-> <<>>]

\* upload_to_all_instances up to the for loop: the payload is prepared; an
\* exception of prepare_upload_data leaves the method at once.
EnterUpload(self, environment, commit_sha, workflow_run_number, junit_objects, ninja_logs) ==
    LET prepared == prepare_upload_data(environment, commit_sha,
                                        workflow_run_number, junit_objects,
                                        ninja_logs)
    IN [NoUpload EXCEPT
           !.pc = IF prepared.raised THEN "done" ELSE "for",
           !.outcome = IF prepared.raised THEN "raised" ELSE "running",
           !.error = prepared.error,
           !.entered = TRUE,
           !.urls = self.urls,
           !.junit_objects = junit_objects,
           !.ninja_logs = ninja_logs,
           !.upload_data = IF prepared.raised THEN NoData ELSE prepared.upload_data]

\* main: on a machine that reports "arm64" the upload is skipped with a
\* message, before an uploader is made; otherwise a PremergeAdvisorUploader
\* with the default URLs uploads.
main(environment, commit_sha, workflow_run_number, junit_objects, ninja_logs) ==
    IF environment.machine = "arm64"
    THEN [NoUpload EXCEPT !.pc = "done", !.outcome = "returned",
                          !.printed = <<"Skipping upload on ARM64">>]
    ELSE EnterUpload(Uploader(<<>>), environment, commit_sha,
                     workflow_run_number, junit_objects, ninja_logs)

\* One iteration of the for loop: url = self.urls[index] (counted from 0)
\* is posted to and the environment answers; both exceptions are
\* RequestException and are caught.
ForBody(frame, answer) ==
    LET url == frame.urls[frame.index + 1]
    IN [frame EXCEPT
           !.index = @ + 1,
           !.posts = Append(@, [url |-> url, json |-> frame.upload_data,
                                timeout |-> 5, answer |-> answer.kind]),
           !.printed =
               Append(@, IF answer.kind = "ok"
                         THEN "Successfully uploaded to " \o url
                         ELSE "Failed to upload to " \o url \o ": "
                                  \o answer.error)]

(***************************************************************************)
(* Lists of changed files that name the same set of paths                  *)
(***************************************************************************)
\* Longest list of changed files whose rearrangements are called.
MaxChanged == 2

\* The paths the rearranged lists are drawn over: a blank line, a project,
\* a meta-project, a skipped path, a runtime and the CI scripts.
ChangedFiles ==
    {"", "llvm/CMakeLists.txt", "clang/lib/CIR/CMakeLists.txt",
     "llvm/docs/CIBestPractices.rst", "libcxx/CMakeLists.txt",
     ".ci/compute_projects.py"}

ChangedLists == UNION {[1..n -> ChangedFiles] : n \in 0..MaxChanged}

\* The paths of a list, as a set.
PathSet(modified_files) == {modified_files[i] : i \in 1..Len(modified_files)}

\* The lists that name the paths of modified_files and no other: its
\* permutations, and the lists that repeat one of its paths.
Rearrangements(modified_files) ==
    {other \in UNION {[1..n -> PathSet(modified_files)] :
                          n \in 0..(MaxChanged + 1)} :
        PathSet(other) = PathSet(modified_files)}

(***************************************************************************)
(* Actions                                                                 *)
(***************************************************************************)
Init ==
    /\ config = ProjectConfiguration
    /\ meta_projects \in MetaOrders
    /\ call = NoCall
    /\ anchor = NoCall
    /\ last_call = "none"
    /\ generator = ExplanationsDict(<<>>)
    /\ report_call = NoReportCall
    /\ closure = NoClosure
    /\ sites = NoSites
    /\ upload = NoUpload

\* config = ProjectConfiguration(): a new instance, nothing called on it yet.
\* Its attributes name the tables of the module (lines 14-24), the objects
\* the attributes of the instance before it named.
Construct ==
    /\ last_call # "none"
    /\ config' = config
    /\ call' = NoCall
    /\ anchor' = NoCall
    /\ last_call' = "none"
    /\ UNCHANGED meta_projects
    /\ UNCHANGED <<generator, report_call, closure, sites, upload>>

\* The first call on the instance; the second call is compared with it.
\* A call stores into sets made inside it only (StatementStep runs the same
\* statements on references, with the tables in the state), so the calls
\* of this specification leave config as it is.
Call(modified_files, platform_name) ==
    /\ last_call = "none"
    /\ call' = get_env_variables(config, meta_projects, modified_files, platform_name)
    /\ anchor' = call'
    /\ UNCHANGED config
    /\ last_call' = "first"
    /\ UNCHANGED meta_projects
    /\ UNCHANGED <<generator, report_call, closure, sites, upload>>

\* The second call on the instance, with one more changed file than the
\* first one.  Two calls are compared at a time: a third call on the
\* instance would be a second call over again, the first having left the
\* tables as they were (InterleavedSpec runs the calls on the tables
\* themselves, any number on one instance).
CallWithAddedFile(modified_file) ==
    /\ last_call = "first"
    /\ call' = get_env_variables(config, meta_projects,
                                 Append(anchor.modified_files, modified_file),
                                 anchor.platform_name)
    /\ UNCHANGED config
    /\ last_call' = "added_file"
    /\ UNCHANGED <<meta_projects, anchor>>
    /\ UNCHANGED <<generator, report_call, closure, sites, upload>>

\* The second call on the instance, with the files of the first one, for
\* another platform.
CallOnPlatform(platform_name) ==
    /\ last_call = "first"
    /\ platform_name # anchor.platform_name
    /\ call' = get_env_variables(config, meta_projects, anchor.modified_files,
                                 platform_name)
    /\ UNCHANGED config
    /\ last_call' = "other_platform"
    /\ UNCHANGED <<meta_projects, anchor>>
    /\ UNCHANGED <<generator, report_call, closure, sites, upload>>

Next ==
    \/ Construct
    \/ \E modified_files \in FileLists, platform_name \in Platforms :
           Call(modified_files, platform_name)
    \/ \E modified_file \in Files : CallWithAddedFile(modified_file)
    \/ \E platform_name \in Platforms : CallOnPlatform(platform_name)

Spec == Init /\ [][Next]_vars

(***************************************************************************)
(* Actions on a TestReportGenerator                                        *)
(***************************************************************************)
computeVars == <<config, meta_projects, call, anchor, last_call>>

ReportInit ==
    /\ config = ProjectConfiguration
    /\ meta_projects = META_PROJECTS
    /\ call = NoCall
    /\ anchor = NoCall
    /\ last_call = "none"
    /\ generator = ExplanationsDict(<<>>)
    /\ report_call = NoReportCall
    /\ closure = NoClosure
    /\ sites = NoSites
    /\ upload = NoUpload

\* generator = TestReportGenerator(): a new instance, nothing called on it.
NewGenerator ==
    /\ report_call.op # "none"
    /\ generator' = ExplanationsDict(<<>>)
    /\ report_call' = NoReportCall
    /\ UNCHANGED <<computeVars, closure, sites, upload>>

\* generator.find_failures_in_ninja_logs(ninja_logs).
FindFailures(ninja_logs) ==
    /\ report_call.op = "none"
    /\ LET found == find_failures_in_ninja_logs(ninja_logs)
       IN report_call' =
              [NoReportCall EXCEPT
                  !.op = "find_failures_in_ninja_logs",
                  !.outcome = IF found.raised THEN "raised" ELSE "returned",
                  !.error = IF found.raised THEN "IndexError" ELSE "",
                  !.ninja_logs = ninja_logs,
                  !.failures = IF found.raised THEN <<>> ELSE found.failures]
    /\ UNCHANGED generator
    /\ UNCHANGED <<computeVars, closure, sites, upload>>

\* generator.get_test_failures(junit_objects); failures holds the items of
\* the dict returned.
GetTestFailures(junit_objects) ==
    /\ report_call.op = "none"
    /\ LET looked == get_test_failures(junit_objects)
       IN report_call' =
              [NoReportCall EXCEPT
                  !.op = "get_test_failures",
                  !.outcome = IF looked.raised THEN "raised" ELSE "returned",
                  !.error = IF looked.raised THEN "AttributeError" ELSE "",
                  !.junit_objects = junit_objects,
                  !.failures = IF looked.raised THEN <<>> ELSE looked.failures]
    /\ UNCHANGED generator
    /\ UNCHANGED <<computeVars, closure, sites, upload>>

\* generator.generate_report(...); self.failure_explanations is left as the
\* last run of the body set it.
GenerateReport(title, return_code, junit_objects, ninja_logs, size_limit, list_failures, failure_explanations) ==
    /\ report_call.op = "none"
    /\ report_call' =
           generate_report(title, return_code, junit_objects, ninja_logs,
                           size_limit, list_failures, failure_explanations)
    /\ generator' = IF report_call'.passes = 2 THEN ExplanationsDict(<<>>)
                    ELSE ExplanationsDict(failure_explanations)
    /\ UNCHANGED <<computeVars, closure, sites, upload>>

\* One method is called on a generator; the arguments are drawn only when
\* a call can be made.
ReportNext ==
    \/ NewGenerator
    \/ /\ report_call.op = "none"
       /\ \E ninja_logs \in NinjaLogLists : FindFailures(ninja_logs)
    \/ /\ report_call.op = "none"
       /\ \E junit_objects \in JUnitLists : GetTestFailures(junit_objects)
    \/ /\ report_call.op = "none"
       /\ \E title \in {"Foo"}, return_code \in ReturnCodes,
             junit_objects \in JUnitLists, ninja_logs \in NinjaLogLists,
             size_limit \in SizeLimits, list_failures \in BOOLEAN,
             failure_explanations \in ExplanationLists :
              GenerateReport(title, return_code, junit_objects, ninja_logs,
                             size_limit, list_failures, failure_explanations)

ReportSpec == ReportInit /\ [][ReportNext]_vars

(***************************************************************************)
(* Actions of the closure loop                                             *)
(***************************************************************************)
otherVars ==
    <<config, meta_projects, call, anchor, last_call, generator, report_call,
      sites, upload>>

ClosureInit ==
    /\ config = ProjectConfiguration
    /\ meta_projects = META_PROJECTS
    /\ call = NoCall
    /\ anchor = NoCall
    /\ last_call = "none"
    /\ generator = ExplanationsDict(<<>>)
    /\ report_call = NoReportCall
    /\ closure = NoClosure
    /\ sites = NoSites
    /\ upload = NoUpload

\* _add_dependencies is entered with a graph, a set of projects and a set
\* of runtimes.
AddDependenciesCalled(dependencies, projects, runtimes) ==
    /\ closure.pc = "idle"
    /\ closure' = EnterAddDependencies(dependencies, projects, runtimes)
    /\ UNCHANGED otherVars

\* while current_count != len(projects_with_deps): one more pass.
WhileContinues ==
    /\ closure.pc = "while"
    /\ closure.current_count # Cardinality(closure.projects_with_deps)
    /\ closure' = WhileBody(closure)
    /\ UNCHANGED otherVars

\* The condition of the while loop is false: the loop is left.
WhileExits ==
    /\ closure.pc = "while"
    /\ closure.current_count = Cardinality(closure.projects_with_deps)
    /\ closure' = [closure EXCEPT !.pc = "for"]
    /\ UNCHANGED otherVars

\* for runtime in runtimes: ...; the set is then ready to be returned.
RuntimesAdded ==
    /\ closure.pc = "for"
    /\ closure' = ForRuntimes(closure)
    /\ UNCHANGED otherVars

\* return projects_with_deps: the call is over; another one can start.
AddDependenciesReturned ==
    /\ closure.pc = "done"
    /\ closure' = NoClosure
    /\ UNCHANGED otherVars

ClosureNext ==
    \/ \E dependencies \in Graphs, projects \in SUBSET ProjectNames,
          runtimes \in RuntimeSets :
           AddDependenciesCalled(dependencies, projects, runtimes)
    \/ WhileContinues
    \/ WhileExits
    \/ RuntimesAdded
    \/ AddDependenciesReturned

\* The function is sequential code: while it is running, its next step is
\* taken.
ClosureSpec ==
    /\ ClosureInit
    /\ [][ClosureNext]_vars
    /\ WF_vars(WhileContinues \/ WhileExits \/ RuntimesAdded)

(***************************************************************************)
(* Actions of callers that share one ProjectConfiguration                  *)
(***************************************************************************)
siteOtherVars ==
    <<meta_projects, call, anchor, last_call, generator, report_call, closure,
      upload>>

InterleavedInit ==
    /\ config = ProjectConfiguration
    /\ meta_projects = META_PROJECTS
    /\ call = NoCall
    /\ anchor = NoCall
    /\ last_call = "none"
    /\ generator = ExplanationsDict(<<>>)
    /\ report_call = NoReportCall
    /\ closure = NoClosure
    /\ sites = NoSites
    /\ upload = NoUpload

\* A caller enters config.get_env_variables(modified_files, platform_name).
EnterCall(caller, modified_files, platform_name) ==
    /\ sites[caller].pc = "idle"
    /\ sites' =
           [sites EXCEPT ![caller] =
               EnterGetEnvVariables(
                   modified_files, platform_name,
                   \E other \in Callers \ {caller} : InProgress(sites[other]))]
    /\ UNCHANGED config
    /\ UNCHANGED siteOtherVars

\* The next statement of a caller's call runs, whatever the other callers
\* are doing, and meets the members of every set it iterates over in one of
\* the orders the set can be met in.
RunStatement(caller, order) ==
    /\ InProgress(sites[caller])
    /\ LET m == StatementStep(config, meta_projects, sites[caller], order)
       IN /\ sites' = [sites EXCEPT ![caller] = m.frame]
          /\ config' = m.self
    /\ UNCHANGED siteOtherVars

\* The caller has used what the call returned (or handled what it raised).
LeaveCall(caller) ==
    /\ sites[caller].pc = "done"
    /\ sites' = [sites EXCEPT ![caller] = NoSite]
    /\ UNCHANGED config
    /\ UNCHANGED siteOtherVars

InterleavedNext ==
    \/ \E caller \in Callers, modified_files \in SiteFileLists,
          platform_name \in SitePlatforms :
           EnterCall(caller, modified_files, platform_name)
    \/ \E caller \in Callers :
           \E order \in IterationOrders(Widest(config, meta_projects, sites[caller])) :
               RunStatement(caller, order)
    \/ \E caller \in Callers : LeaveCall(caller)

InterleavedSpec == InterleavedInit /\ [][InterleavedNext]_vars

(***************************************************************************)
(* Actions that call get_env_variables on rearranged lists                 *)
(***************************************************************************)
\* A call, right after the first one, for the platform of the first call
\* and a list that names the same paths in another order or with
\* repetitions.
CallRearranged(modified_files) ==
    /\ last_call = "first"
    /\ modified_files \in Rearrangements(anchor.modified_files)
    /\ modified_files # anchor.modified_files
    /\ call' = get_env_variables(config, meta_projects, modified_files,
                                 anchor.platform_name)
    /\ UNCHANGED config
    /\ last_call' = "rearranged"
    /\ UNCHANGED <<meta_projects, anchor>>
    /\ UNCHANGED <<generator, report_call, closure, sites, upload>>

OrderNext ==
    \/ Construct
    \/ \E modified_files \in ChangedLists, platform_name \in Platforms :
           Call(modified_files, platform_name)
    \/ \E modified_files \in Rearrangements(anchor.modified_files) :
           CallRearranged(modified_files)

OrderSpec == Init /\ [][OrderNext]_vars

(***************************************************************************)
(* Actions of an advisor upload                                            *)
(***************************************************************************)
uploadOtherVars ==
    <<config, meta_projects, call, anchor, last_call, generator, report_call,
      closure, sites>>

UploadInit ==
    /\ config = ProjectConfiguration
    /\ meta_projects = META_PROJECTS
    /\ call = NoCall
    /\ anchor = NoCall
    /\ last_call = "none"
    /\ generator = ExplanationsDict(<<>>)
    /\ report_call = NoReportCall
    /\ closure = NoClosure
    /\ sites = NoSites
    /\ upload = NoUpload

\* PremergeAdvisorUploader(urls).upload_to_all_instances(...) is called on
\* the test results and logs read from build_log_files.
UploadCalled(urls, environment, junit_objects, ninja_logs) ==
    /\ upload.pc = "idle"
    /\ upload' = EnterUpload(Uploader(urls), environment, "abc", "1",
                             junit_objects, ninja_logs)
    /\ UNCHANGED uploadOtherVars

\* The script is run: main(commit_sha, workflow_run_number, build_log_files).
MainCalled(environment, junit_objects, ninja_logs) ==
    /\ upload.pc = "idle"
    /\ upload' = main(environment, "abc", "1", junit_objects, ninja_logs)
    /\ UNCHANGED uploadOtherVars

\* for url in self.urls: the next URL is posted to.
ForContinues(answer) ==
    /\ upload.pc = "for"
    /\ upload.index < Len(upload.urls)
    /\ upload' = ForBody(upload, answer)
    /\ UNCHANGED uploadOtherVars

\* The URLs are exhausted: the method returns None.
ForExits ==
    /\ upload.pc = "for"
    /\ upload.index = Len(upload.urls)
    /\ upload' = [upload EXCEPT !.pc = "done", !.outcome = "returned"]
    /\ UNCHANGED uploadOtherVars

\* The call is over; another one can start.
UploadReturned ==
    /\ upload.pc = "done"
    /\ upload' = NoUpload
    /\ UNCHANGED uploadOtherVars

\* The arguments of a call are drawn only when a call can be made.
UploadNext ==
    \/ /\ upload.pc = "idle"
       /\ \E urls \in UrlsArguments, environment \in Environments,
             junit_objects \in JUnitLists, ninja_logs \in NinjaLogLists :
              UploadCalled(urls, environment, junit_objects, ninja_logs)
    \/ /\ upload.pc = "idle"
       /\ \E environment \in Environments, junit_objects \in JUnitLists,
             ninja_logs \in NinjaLogLists :
              MainCalled(environment, junit_objects, ninja_logs)
    \/ \E answer \in Answers : ForContinues(answer)
    \/ ForExits
    \/ UploadReturned

UploadSpec == UploadInit /\ [][UploadNext]_vars

(***************************************************************************)
(* Properties                                                              *)
(***************************************************************************)
Returned == call.outcome = "returned"

Range(s) == {s[i] : i \in 1..Len(s)}

RECURSIVE ReachedWithin(_, _, _)
\* The projects reached from S along at most n edges of the dependency graph.
ReachedWithin(deps, S, n) ==
    IF n = 0 THEN S
    ELSE ReachedWithin(deps, S \cup UNION {deps[p] : p \in S \cap DOMAIN deps},
                       n - 1)

\* S and everything S depends on, directly or transitively.
ReachedFrom(deps, S) == ReachedWithin(deps, S, Cardinality(DOMAIN deps))

\* Every direct dependency of P is built, unless it is in the build-skip set.
DependenciesBuilt(P) ==
    P \in DOMAIN config.dependencies =>
        config.dependencies[P] \ SKIP_BUILD_PROJECTS \subseteq call.projects_to_build

\* C1 (as claimed): closure correctness for every project of projects_to_build,
\* also for those that entered it only as direct dependencies of a runtime.
C1_ClosureCorrectness ==
    Returned => \A P \in call.projects_to_build : DependenciesBuilt(P)

\* C1 (amended): closure correctness for every project of projects_to_build
\* that is in projects_to_test or is reached from it by the dependency graph;
\* the direct dependencies of the runtimes are added without their own.
C1_ClosureOfTested ==
    Returned =>
        \A P \in call.projects_to_build \cap
                 ReachedFrom(config.dependencies, call.projects_to_test) :
            DependenciesBuilt(P)

\* A call where the closure added a dependency of a tested project and a
\* project entered projects_to_build only as a dependency of a runtime.
C1_Witness ==
    /\ Returned
    /\ \E P \in call.projects_to_test \cap DOMAIN config.dependencies :
           ~(config.dependencies[P] \subseteq call.projects_to_test)
    /\ call.projects_to_build \
           ReachedFrom(config.dependencies, call.projects_to_test) # {}

\* The check targets of the projects of a set.
TargetsOf(projects) ==
    {config.check_targets[p] : p \in projects \cap DOMAIN config.check_targets}

\* True when the changed file lies under the directory given by its parts.
Under(modified_file, directory) ==
    /\ Len(PathParts[modified_file]) > Len(directory)
    /\ SubSeq(PathParts[modified_file], 1, Len(directory)) = directory

\* C2 (as claimed): on Linux, Windows and Darwin no project of the platform's
\* exclusion set is in projects_to_build or runtimes_to_build, and no check
\* target of such a project is in one of the three check-target outputs.
C2_PlatformExclusion ==
    (Returned /\ call.platform_name \in {"Linux", "Windows", "Darwin"}) =>
        LET excluded == config.exclusions[call.platform_name]
        IN /\ call.projects_to_build \cap excluded = {}
           /\ call.runtimes_to_build \cap excluded = {}
           /\ Range(call.project_check_targets) \cap TargetsOf(excluded) = {}
           /\ Range(call.runtimes_check_targets) \cap TargetsOf(excluded) = {}
           /\ Range(call.runtimes_check_targets_needs_reconfig)
                  \cap TargetsOf(excluded) = {}

\* C3 (as claimed): on Linux, a changed file under clang/lib/CIR gives
\* enable_cir = 'ON' and check-clang-cir among the project check targets.
C3_CirModification ==
    (/\ Returned
     /\ call.platform_name = "Linux"
     /\ \E i \in 1..Len(call.modified_files) :
            Under(call.modified_files[i], <<"clang", "lib", "CIR">>))
    => /\ call.env_vars.enable_cir = "ON"
       /\ "check-clang-cir" \in Range(call.project_check_targets)

\* C4: no project of SKIP_BUILD_PROJECTS is in the returned projects_to_build,
\* also when it was in projects_to_test.
C4_SkipBuildNotBuilt ==
    Returned => \A project \in SKIP_BUILD_PROJECTS :
                    project \notin call.projects_to_build

\* A call that tests lit and CIR: both check targets are emitted, neither
\* project is built.
C4_Witness ==
    /\ Returned
    /\ {"lit", "CIR"} \subseteq call.projects_to_test
    /\ {"check-lit", "check-clang-cir"} \subseteq Range(call.project_check_targets)
    /\ call.projects_to_build \cap {"lit", "CIR"} = {}
    /\ call.env_vars.projects_to_build # ""

\* C5: enable_cir is 'ON' exactly when 'CIR' is in projects_to_build as it
\* stands after the discard of the build-skip set, 'OFF' otherwise, and never
\* another value.
C5_EnableCirAfterDiscard ==
    Returned =>
        /\ call.env_vars.enable_cir \in {"ON", "OFF"}
        /\ call.env_vars.enable_cir = "ON" <=> "CIR" \in call.projects_to_build

\* A call that tests CIR: the discard has removed it from projects_to_build
\* before the flag is computed, and the flag is 'OFF'.
C5_Witness ==
    /\ Returned
    /\ "CIR" \in call.projects_to_test
    /\ "CIR" \notin call.projects_to_build
    /\ call.env_vars.enable_cir = "OFF"

\* The latest call has the platform of the first call and its files followed
\* by one more.
AddedFile ==
    /\ anchor.outcome # "none"
    /\ call.outcome # "none"
    /\ call.platform_name = anchor.platform_name
    /\ Len(call.modified_files) = Len(anchor.modified_files) + 1
    /\ SubSeq(call.modified_files, 1, Len(anchor.modified_files))
           = anchor.modified_files

\* Every output of frame a is kept in frame b.
OutputsKept(a, b) ==
    /\ a.projects_to_build \subseteq b.projects_to_build
    /\ a.runtimes_to_build \subseteq b.runtimes_to_build
    /\ Range(a.project_check_targets) \subseteq Range(b.project_check_targets)
    /\ Range(a.runtimes_check_targets) \subseteq Range(b.runtimes_check_targets)
    /\ Range(a.runtimes_check_targets_needs_reconfig)
           \subseteq Range(b.runtimes_check_targets_needs_reconfig)
    /\ a.env_vars.enable_cir = "ON" => b.env_vars.enable_cir = "ON"

\* C6 (as claimed): for file lists F and F + [f] on one platform, the call
\* for F + [f] returns outputs that keep every project, runtime and check
\* target of the outputs for F, and enable_cir does not go from 'ON' to 'OFF'.
C6_Monotonicity ==
    (AddedFile /\ anchor.outcome = "returned") =>
        /\ call.outcome = "returned"
        /\ OutputsKept(anchor, call)

\* C7: two calls on the one configuration that have ended and had the same
\* file list and the same platform ended the same way, with the same six
\* keys and the same string values, whatever calls and statements of other
\* calls ran before or between them and in whatever order each call met the
\* members of its sets.
C7_Determinism ==
    \A a, b \in Callers :
        (/\ sites[a].pc = "done"
         /\ sites[b].pc = "done"
         /\ sites[a].modified_files = sites[b].modified_files
         /\ sites[a].platform_name = sites[b].platform_name)
        => /\ sites[a].outcome = sites[b].outcome
           /\ sites[a].env_vars = sites[b].env_vars
           /\ sites[a].outcome = "returned" => DOMAIN sites[a].env_vars = EnvKeys

\* Two calls for the same change to mlir on Linux have returned, the second
\* entered after the first had ended; their return statements met the four
\* projects to build in different orders, the first in an order that is
\* neither the ascending nor the descending one, the second in descending
\* order.
C7_Witness ==
    /\ sites["a"].pc = "done"
    /\ sites["b"].pc = "done"
    /\ sites["a"].outcome = "returned"
    /\ sites["b"].outcome = "returned"
    /\ sites["a"].modified_files = <<"mlir/CMakeLists.txt">>
    /\ sites["b"].modified_files = sites["a"].modified_files
    /\ sites["a"].platform_name = "Linux"
    /\ sites["b"].platform_name = "Linux"
    /\ ~sites["a"].concurrent
    /\ ~sites["b"].concurrent
    /\ Cardinality(Local(sites["a"], "projects_to_build")) = 4
    /\ sites["a"].met = "neither"
    /\ sites["b"].met = "descending"
    /\ sites["a"].env_vars = sites["b"].env_vars

\* The items of META_PROJECTS that match a changed file and name a project
\* of SKIP_PROJECTS, resp. another project.
SkipMatches(modified_file) ==
    {k \in 1..Len(meta_projects) :
        /\ _path_matches(meta_projects[k][1], PathParts[modified_file])
        /\ meta_projects[k][2] \in SKIP_PROJECTS}

OtherMatches(modified_file) ==
    {k \in 1..Len(meta_projects) :
        /\ _path_matches(meta_projects[k][1], PathParts[modified_file])
        /\ meta_projects[k][2] \notin SKIP_PROJECTS}

\* C8: a changed file that matches a meta pattern of a SKIP_PROJECTS project
\* resolves to the empty set, whatever else matches it, in whatever order
\* META_PROJECTS is iterated and whatever its first segment is.
C8_SkipAbsorption ==
    \A i \in 1..Len(call.per_file) :
        SkipMatches(call.modified_files[i]) # {} =>
            call.per_file[i] = [raised |-> FALSE, projects |-> {}]

\* A file that matches a pattern of another meta project, iterated first, and
\* then a pattern of a skipped project, and resolves to the empty set.
C8_Witness ==
    \E i \in 1..Len(call.per_file) :
        /\ \E k \in OtherMatches(call.modified_files[i]) :
               \E j \in SkipMatches(call.modified_files[i]) : k < j
        /\ call.per_file[i].projects = {}

\* C9 (as claimed): no call ends in an error; every call returns the mapping
\* with the six keys.
C9_NoErrorOutcome ==
    call.outcome # "none" =>
        /\ call.outcome = "returned"
        /\ DOMAIN call.env_vars = EnvKeys
        /\ \A i \in 1..Len(call.per_file) : ~call.per_file[i].raised

\* The three check-target outputs: the set they are computed from, the sorted
\* list and the string returned.
CheckTargetOutputs ==
    {[members |-> call.projects_to_test,
      targets |-> call.project_check_targets,
      value |-> call.env_vars.project_check_targets],
     [members |-> call.runtimes_to_test,
      targets |-> call.runtimes_check_targets,
      value |-> call.env_vars.runtimes_check_targets],
     [members |-> call.runtimes_to_test_reconfig,
      targets |-> call.runtimes_check_targets_needs_reconfig,
      value |-> call.env_vars.runtimes_check_targets_needs_reconfig]}

\* The project a check target belongs to.
ProjectOf(target) ==
    CHOOSE p \in DOMAIN config.check_targets : config.check_targets[p] = target

RECURSIVE TotalLen(_)
TotalLen(strings) ==
    IF strings = <<>> THEN 0 ELSE Len(Head(strings)) + TotalLen(Tail(strings))

\* The list holds the check target of every member that has one, once each,
\* and the value is the list joined by single spaces.
ListsTargetsOf(out) ==
    /\ Range(out.targets) = TargetsOf(out.members)
    /\ Len(out.targets) = Cardinality(out.members \cap DOMAIN config.check_targets)
    /\ out.value = join(" ", out.targets)
    /\ Len(out.value) = TotalLen(out.targets)
                            + (IF out.targets = <<>> THEN 0 ELSE Len(out.targets) - 1)

\* C10 (as claimed): each check-target output lists the targets of its
\* members that have one, single-space separated, in ascending order of the
\* project names.
C10_ProjectNameOrder ==
    Returned =>
        \A out \in CheckTargetOutputs :
            /\ ListsTargetsOf(out)
            /\ \A i, j \in 1..Len(out.targets) :
                   i < j => StrLess(ProjectOf(out.targets[i]),
                                    ProjectOf(out.targets[j]))

\* C10 (amended): each check-target output lists the targets of its members
\* that have one, single-space separated, in ascending order of the target
\* names.
C10_TargetNameOrder ==
    Returned =>
        \A out \in CheckTargetOutputs :
            /\ ListsTargetsOf(out)
            /\ \A i, j \in 1..Len(out.targets) :
                   i < j => StrLess(out.targets[i], out.targets[j])

\* A call that tests CIR and bolt, whose order as projects is the reverse of
\* the order of their targets, and a project without a check target.
C10_Witness ==
    /\ Returned
    /\ {"CIR", "bolt", "libclc"} \subseteq call.projects_to_test
    /\ StrLess("CIR", "bolt")
    /\ StrLess(config.check_targets["bolt"], config.check_targets["CIR"])
    /\ "libclc" \notin DOMAIN config.check_targets
    /\ \E i, j \in 1..Len(call.project_check_targets) :
           /\ i < j
           /\ call.project_check_targets[i] = "check-bolt"
           /\ call.project_check_targets[j] = "check-clang-cir"

(***************************************************************************)
(* C11                                                                     *)
(***************************************************************************)
\* Every name a configuration table holds, as a key or as a member.
TableNames ==
    LET Names(table) == DOMAIN table \cup UNION {table[k] : k \in DOMAIN table}
    IN Names(config.dependencies) \cup Names(config.dependents)
       \cup Names(config.runtime_deps) \cup Names(config.test_runtimes)
       \cup Names(config.test_runtimes_reconfig)
       \cup DOMAIN config.check_targets
       \cup UNION {config.exclusions[p] : p \in DOMAIN config.exclusions}
       \cup RUNTIMES \cup EXCLUDE_DEPENDENTS_WINDOWS
       \cup SKIP_PROJECTS \cup SKIP_BUILD_PROJECTS

\* The latest call returned and every file of it resolved to names that are
\* in no table.
OnlyUnknownNames ==
    /\ Returned
    /\ \A i \in 1..Len(call.per_file) :
           call.per_file[i].projects \cap TableNames = {}

NothingToBuild ==
    [projects_to_build |-> "", project_check_targets |-> "",
     runtimes_to_build |-> "", runtimes_check_targets |-> "",
     runtimes_check_targets_needs_reconfig |-> "", enable_cir |-> "OFF"]

\* C11: when every changed file resolves only to names that occur in no
\* configuration table, the five list outputs are the empty string and
\* enable_cir is 'OFF'.
C11_UnknownNamesBuildNothing ==
    OnlyUnknownNames => call.env_vars = NothingToBuild

\* A call with a top-level file, a file of an unknown directory and a
\* workflow file other than the premerge one, in some pair of them.
C11_Witness ==
    /\ OnlyUnknownNames
    /\ Len(call.modified_files) = 2
    /\ Range(call.modified_files) \subseteq
           {"README.md", "llvm-libgcc/CMakeLists.txt", ".github/workflows/docs.yml"}
    /\ Cardinality(call.modified_projects) = 2
    /\ call.env_vars = NothingToBuild

(***************************************************************************)
(* C12                                                                     *)
(***************************************************************************)
\* What the modified projects that are not runtimes can put in
\* projects_to_test: themselves, with a check target, and their dependents.
FromOtherProjects ==
    UNION {(({p} \cap DOMAIN config.check_targets)
            \cup (IF p \in DOMAIN config.dependents
                  THEN config.dependents[p] ELSE {})) :
               p \in call.modified_projects \ RUNTIMES}

\* C12: a modified project that is a runtime adds nothing to projects_to_test
\* or to project_check_targets, neither itself nor through the dependents
\* table; changing only libcxx/CMakeLists.txt on Linux gives an empty
\* projects_to_build.
C12_RuntimeSkippedAsProject ==
    Returned =>
        /\ call.projects_to_test \subseteq FromOtherProjects
        /\ Range(call.project_check_targets) \subseteq
               {config.check_targets[p] :
                    p \in FromOtherProjects \cap DOMAIN config.check_targets}
        /\ (call.modified_projects \subseteq RUNTIMES =>
                /\ call.env_vars.project_check_targets = ""
                /\ call.projects_to_build =
                       UNION {config.dependencies[r] :
                                  r \in call.runtimes_to_build
                                            \cap DOMAIN config.dependencies})
        /\ ((call.modified_files = <<"libcxx/CMakeLists.txt">>
                 /\ call.platform_name = "Linux")
                => call.env_vars.projects_to_build = "")

\* libcxx and compiler-rt changed: both have a check target, neither is
\* tested as a project, and compiler-rt still makes clang and lld build
\* through the runtime tables.
C12_Witness ==
    /\ Returned
    /\ call.modified_projects = {"libcxx", "compiler-rt"}
    /\ call.modified_projects \subseteq RUNTIMES \cap DOMAIN config.check_targets
    /\ call.projects_to_test = {}
    /\ "compiler-rt" \in call.runtimes_to_test
    /\ call.env_vars.projects_to_build = "clang;lld"

(***************************************************************************)
(* C13                                                                     *)
(***************************************************************************)
\* The exclusion set of the platform of the latest call.
PlatformExclusions ==
    IF call.platform_name \in DOMAIN config.exclusions
    THEN config.exclusions[call.platform_name] ELSE {}

\* The dependents a modified project brings on the platform of the call.
DependentsBrought(p) ==
    IF p \notin DOMAIN config.dependents THEN {}
    ELSE IF call.platform_name = "Windows"
    THEN {d \in config.dependents[p] : d \notin EXCLUDE_DEPENDENTS_WINDOWS}
    ELSE config.dependents[p]

\* The second call is the Windows run of the first, Linux, call.
WindowsAfterLinux ==
    /\ last_call = "other_platform"
    /\ anchor.outcome = "returned"
    /\ anchor.platform_name = "Linux"
    /\ call.platform_name = "Windows"

\* C13: projects_to_test is the platform-filtered union, over the modified
\* projects that are not runtimes, of the project itself when it has a check
\* target and of its dependents, EXCLUDE_DEPENDENTS_WINDOWS being taken from
\* the dependents on Windows only and never from the modified projects; for
\* clang/CMakeLists.txt Windows builds a strict subset of what Linux builds.
C13_ProjectsToTest ==
    Returned =>
        /\ \A q \in TableNames \cup call.modified_projects :
               q \in call.projects_to_test <=>
                   /\ q \notin PlatformExclusions
                   /\ \E p \in call.modified_projects \ RUNTIMES :
                          \/ q = p /\ p \in DOMAIN config.check_targets
                          \/ q \in DependentsBrought(p)
        /\ call.projects_to_test \subseteq TableNames \cup call.modified_projects
        /\ ((WindowsAfterLinux
                 /\ call.modified_files = <<"clang/CMakeLists.txt">>)
                => /\ call.projects_to_build \subseteq anchor.projects_to_build
                   /\ call.projects_to_build # anchor.projects_to_build)

\* llvm and flang changed on Windows: flang is a dependent of llvm and in
\* EXCLUDE_DEPENDENTS_WINDOWS, and is tested because it is modified itself;
\* the other dependents of llvm are tested unless Windows excludes them.
C13_Witness ==
    /\ Returned
    /\ call.platform_name = "Windows"
    /\ call.modified_projects = {"llvm", "flang"}
    /\ "flang" \in config.dependents["llvm"] \cap EXCLUDE_DEPENDENTS_WINDOWS
    /\ "flang" \in call.projects_to_test
    /\ "lldb" \in config.dependents["llvm"] \ call.projects_to_test
    /\ "mlir" \in call.projects_to_test

(***************************************************************************)
(* C14                                                                     *)
(***************************************************************************)
MinOf(S) == CHOOSE x \in S : \A y \in S : x <= y

RECURSIVE BlocksFrom(_, _)
\* The failures of one log as the claim describes them, scanning from line
\* number from (counted from 1): the next FAILED: line opens a block unless
\* the line before it starts with "ninja: build stopped:"; the block ends
\* before the first later line starting with "[" or "ninja: build stopped:",
\* or after NINJA_LOG_SIZE_THRESHOLD lines.
BlocksFrom(ninja_log, from) ==
    LET failed == {i \in from..Len(ninja_log) :
                       startswith(ninja_log[i], "FAILED:")}
        open == MinOf(failed)
        ends == {j \in (open + 1)..Len(ninja_log) :
                     \/ startswith(ninja_log[j], "[")
                     \/ startswith(ninja_log[j], "ninja: build stopped:")}
        end == MinOf(ends \cup {Len(ninja_log) + 1,
                                open + NINJA_LOG_SIZE_THRESHOLD})
    IN IF failed = {} THEN <<>>
       ELSE IF open > 1 /\ startswith(ninja_log[open - 1], "ninja: build stopped:")
       THEN BlocksFrom(ninja_log, open + 1)
       ELSE <<<<split(ninja_log[open])[2],
                join("\n", SubSeq(ninja_log, open, end - 1))>>>>
            \o BlocksFrom(ninja_log, end)

RECURSIVE BlocksOfLogs(_)
BlocksOfLogs(ninja_logs) ==
    IF ninja_logs = <<>> THEN <<>>
    ELSE BlocksFrom(Head(ninja_logs), 1) \o BlocksOfLogs(Tail(ninja_logs))

\* C14: for every finite list of logs find_failures_in_ninja_logs returns a
\* list, and the list holds, in log order, one (action, text) pair for each
\* FAILED: line that opens a failure block.
C14_NinjaFailuresFound ==
    report_call.op = "find_failures_in_ninja_logs" =>
        /\ report_call.outcome = "returned"
        /\ report_call.failures = BlocksOfLogs(report_call.ninja_logs)

(***************************************************************************)
(* C15                                                                     *)
(***************************************************************************)
\* The report list shows the details of a failure.
ListsDetails(report) == "<details>" \in Range(report)

\* generate_report was called with list_failures=True and the report it
\* first built lists failure details and is larger than size_limit.
DetailedReportTooLarge ==
    /\ report_call.op = "generate_report"
    /\ report_call.outcome = "returned"
    /\ report_call.list_failures
    /\ ListsDetails(report_call.first_report)
    /\ EncodedLen(join("\n", report_call.first_report)) > report_call.size_limit

\* C15: whenever the report that lists failure details is larger than
\* size_limit, generate_report returns the report without the details and
\* with the "too large to report" notice, for failing tests and for ninja
\* failures alike, after at most one regeneration.
C15_SizeLimiting ==
    DetailedReportTooLarge =>
        /\ ~ListsDetails(report_call.report)
        /\ TOO_LARGE_STR \in Range(report_call.report)
        /\ report_call.passes = 2

(***************************************************************************)
(* C16                                                                     *)
(***************************************************************************)
\* S holds the direct dependencies of each of its members.
ClosedUnderDependencies(S) ==
    \A p \in S \cap DOMAIN config.dependencies : config.dependencies[p] \subseteq S

\* The direct dependencies of the runtimes to build.
RuntimeDependencies ==
    UNION {config.dependencies[r] :
               r \in call.runtimes_to_build \cap DOMAIN config.dependencies}

\* C16: projects_to_build is (C \cup D) minus the build-skip set, C being the
\* least set that holds projects_to_test and is closed under the dependency
\* graph and D the direct dependencies of runtimes_to_build, not expanded;
\* the runtimes themselves are not added.
C16_ProjectsToBuild ==
    Returned =>
        LET C == ReachedFrom(config.dependencies, call.projects_to_test)
        IN /\ call.projects_to_test \subseteq C
           /\ ClosedUnderDependencies(C)
           /\ \A p \in C \ call.projects_to_test :
                  \E q \in C : /\ q \in DOMAIN config.dependencies
                               /\ p \in config.dependencies[q]
           /\ call.projects_to_build =
                  (C \cup RuntimeDependencies) \ SKIP_BUILD_PROJECTS
           /\ call.projects_to_build \cap call.runtimes_to_build = {}

\* flang and compiler-rt changed on Linux: the closure of flang gives flang,
\* clang and llvm, and compiler-rt adds lld, which the closure does not hold;
\* neither runtime is built as a project.
C16_Witness ==
    /\ Returned
    /\ call.projects_to_test = {"flang"}
    /\ call.runtimes_to_build = {"flang-rt", "compiler-rt"}
    /\ "lld" \in RuntimeDependencies
                    \ ReachedFrom(config.dependencies, call.projects_to_test)
    /\ call.projects_to_build = {"flang", "clang", "llvm", "lld"}

(***************************************************************************)
(* C17                                                                     *)
(***************************************************************************)
\* The names a graph holds, as keys or as dependencies.
GraphNames(dependencies) ==
    DOMAIN dependencies \cup UNION {dependencies[p] : p \in DOMAIN dependencies}

\* C17: on every finite dependency graph, cycles and self-dependencies
\* included, the working set of the closure loop stays within the given
\* projects and the names of the graph, only grows, the loop goes on only
\* after a pass that added a project, and it ends, with the closure; the
\* function then returns what _add_dependencies gives.
C17_ClosureLoopTerminates ==
    /\ [](closure.pc # "idle" =>
              closure.projects_with_deps \subseteq
                  closure.projects \cup GraphNames(closure.dependencies))
    /\ [][closure'.pc # "idle" =>
              closure.projects_with_deps \subseteq closure'.projects_with_deps]_vars
    /\ [][(closure.pc = "while" /\ closure'.pc = "while"
               /\ closure.current_count > 0) =>
              closure.current_count < Cardinality(closure.projects_with_deps)]_vars
    /\ [](closure.pc = "for" =>
              /\ closure.current_count = Cardinality(closure.projects_with_deps)
              /\ closure.projects_with_deps =
                     ClosureLoop([dependencies |-> closure.dependencies],
                                 closure.projects, 0)
              /\ \A p \in closure.projects_with_deps \cap DOMAIN closure.dependencies :
                     closure.dependencies[p] \subseteq closure.projects_with_deps)
    /\ [](closure.pc = "done" =>
              closure.projects_with_deps =
                  _add_dependencies([dependencies |-> closure.dependencies],
                                    closure.projects, closure.runtimes))
    /\ (closure.pc = "while") ~> (closure.pc = "done")

\* The loop has ended on a graph where llvm depends on itself and llvm and
\* clang depend on each other, after adding a project.
C17_Witness ==
    /\ closure.pc = "for"
    /\ DOMAIN closure.dependencies = {"llvm", "clang"}
    /\ "llvm" \in closure.dependencies["llvm"]
    /\ "clang" \in closure.dependencies["llvm"]
    /\ "llvm" \in closure.dependencies["clang"]
    /\ closure.projects = {"clang"}
    /\ closure.projects_with_deps = {"clang", "llvm"}

(***************************************************************************)
(* C18                                                                     *)
(***************************************************************************)
\* The match as the claim words it: the path is at least as long as the
\* pattern and its first segments are the pattern's, a "*" standing for any
\* segment.
PrefixMatch(pattern, path) ==
    /\ Len(path) >= Len(pattern)
    /\ SubSeq(path, 1, Len(pattern)) =
           [i \in 1..Len(pattern) |->
               IF pattern[i] = "*" THEN path[i] ELSE pattern[i]]

\* The meta projects whose pattern the file matches in that sense.
PrefixMatched(modified_file) ==
    {meta_projects[j][2] :
         j \in {k \in 1..Len(meta_projects) :
                    PrefixMatch(meta_projects[k][1], PathParts[modified_file])}}

\* C18: a file triggers a meta project exactly when its path is at least as
\* long as the project's pattern and agrees with it segment by segment, "*"
\* matching anything and the segments after the pattern being ignored; so
\* premerge.yaml triggers .ci and docs.yml does not.
C18_PathMatches ==
    Returned =>
        \A i \in 1..Len(call.modified_files) :
            LET modified_file == call.modified_files[i]
                matched == PrefixMatched(modified_file)
                resolved == call.per_file[i].projects
            IN /\ (resolved = {}) <=> (matched \cap SKIP_PROJECTS # {})
               /\ resolved # {} =>
                      /\ matched \subseteq resolved
                      /\ resolved \ matched \subseteq {PathParts[modified_file][1]}
               /\ modified_file = ".github/workflows/premerge.yaml" =>
                      ".ci" \in resolved
               /\ modified_file = ".github/workflows/docs.yml" =>
                      ".ci" \notin resolved

\* The premerge workflow and another workflow changed together: only the
\* first resolves to .ci, and both resolve to their first segment.
C18_Witness ==
    /\ Returned
    /\ call.modified_files =
           <<".github/workflows/premerge.yaml", ".github/workflows/docs.yml">>
    /\ call.per_file[1].projects = {".ci", ".github"}
    /\ call.per_file[2].projects = {".github"}

(***************************************************************************)
(* C19                                                                     *)
(***************************************************************************)
\* C19: for every file that matches no skip-entirely meta project,
\* _get_modified_projects_for_file returns the target projects of all the
\* meta patterns the path matches together with the path's first segment.
C19_ResolvedProjects ==
    \A i \in 1..Len(call.per_file) :
        LET modified_file == call.modified_files[i]
        IN PrefixMatched(modified_file) \cap SKIP_PROJECTS = {} =>
               /\ ~call.per_file[i].raised
               /\ call.per_file[i].projects =
                      PrefixMatched(modified_file)
                          \cup {PathParts[modified_file][1]}

(***************************************************************************)
(* C20                                                                     *)
(***************************************************************************)
\* The runtimes whose check target is in the list of targets.
RuntimesOfTargets(targets) ==
    {r \in DOMAIN config.check_targets : config.check_targets[r] \in Range(targets)}

\* C20: runtimes_to_build holds runtimes_to_test and
\* runtimes_to_test_needs_reconfig, so every runtime whose check target is
\* emitted is built; the platform exclusion of step 4 removes none of them.
C20_TestedRuntimesBuilt ==
    Returned =>
        /\ call.runtimes_to_test \cup call.runtimes_to_test_reconfig
               \subseteq call.runtimes_to_build
        /\ RuntimesOfTargets(call.runtimes_check_targets)
               \subseteq call.runtimes_to_build
        /\ RuntimesOfTargets(call.runtimes_check_targets_needs_reconfig)
               \subseteq call.runtimes_to_build
        /\ (call.runtimes_to_test \cup call.runtimes_to_test_reconfig)
               \cap PlatformExclusions = {}

\* clang changed on Windows, which excludes runtimes: compiler-rt is tested
\* and built, and its target is emitted; the excluded libcxx, libcxxabi and
\* libunwind are neither tested nor built.
C20_Witness ==
    /\ Returned
    /\ call.platform_name = "Windows"
    /\ call.modified_projects = {"clang"}
    /\ call.runtimes_to_test = {"compiler-rt"}
    /\ call.runtimes_check_targets = <<"check-compiler-rt">>
    /\ "compiler-rt" \in call.runtimes_to_build
    /\ config.test_runtimes_reconfig["clang"] \subseteq PlatformExclusions
    /\ call.runtimes_to_test_reconfig = {}

(***************************************************************************)
(* C21                                                                     *)
(***************************************************************************)
\* What one call with the inputs of the frame returns on an instance nothing
\* was called on before.
OnFreshTables(frame) ==
    get_env_variables(ProjectConfiguration, META_PROJECTS,
                      frame.modified_files, frame.platform_name)

\* A call that has ended, ended as the call on fresh tables does.
AsOnFreshTables(frame) ==
    /\ frame.outcome = OnFreshTables(frame).outcome
    /\ frame.env_vars = OnFreshTables(frame).env_vars

\* C21: get_env_variables leaves every configuration table as it was
\* constructed, and every call on a shared ProjectConfiguration, run after
\* or between the statements of other calls, returns what a single call on
\* fresh tables returns.
C21_TablesReadOnly ==
    /\ config = ProjectConfiguration
    /\ meta_projects = META_PROJECTS
    /\ \A caller \in Callers :
           sites[caller].pc = "done" => AsOnFreshTables(sites[caller])

\* A Linux call for a change to mlir started and ended while a Windows call
\* for the same change was between its statements, after the one that
\* leaves flang out of the dependents it read from the table; the Linux
\* call tests flang, which is still in the table's set.
C21_Witness ==
    /\ sites["a"].pc = "_add_dependencies"
    /\ sites["a"].platform_name = "Windows"
    /\ "mlir" \in Local(sites["a"], "modified_projects")
    /\ "flang" \notin Local(sites["a"], "projects_to_test")
    /\ sites["b"].pc = "done"
    /\ sites["b"].concurrent
    /\ sites["b"].platform_name = "Linux"
    /\ sites["b"].outcome = "returned"
    /\ "flang" \in Local(sites["b"], "projects_to_test")
    /\ "flang" \in config.dependents["mlir"]

(***************************************************************************)
(* C22                                                                     *)
(***************************************************************************)
\* The latest call and the first one were made for one platform and for
\* lists that name the same set of paths.
SamePathSet ==
    /\ anchor.outcome # "none"
    /\ call.outcome # "none"
    /\ call.platform_name = anchor.platform_name
    /\ PathSet(call.modified_files) = PathSet(anchor.modified_files)

\* C22: the output mapping depends only on the set of changed paths: a call
\* for a permutation of the list, or for the list with a path repeated,
\* ends as the call for the list did, with the same six strings.
C22_OrderAndRepeats ==
    SamePathSet =>
        /\ call.outcome = anchor.outcome
        /\ call.env_vars = anchor.env_vars

\* A list of two paths that resolve to different projects is called again
\* reversed and with its first path repeated at the end; both calls return
\* the same non-empty build list.
C22_Witness ==
    /\ last_call = "rearranged"
    /\ anchor.modified_files =
           <<"clang/lib/CIR/CMakeLists.txt", "libcxx/CMakeLists.txt">>
    /\ call.modified_files =
           <<"libcxx/CMakeLists.txt", "clang/lib/CIR/CMakeLists.txt",
             "libcxx/CMakeLists.txt">>
    /\ anchor.per_file[1].projects # anchor.per_file[2].projects
    /\ Returned
    /\ call.env_vars.projects_to_build # ""
    /\ call.env_vars = anchor.env_vars

(***************************************************************************)
(* C23                                                                     *)
(***************************************************************************)
\* C23: every project to test is a project to build unless it is in
\* SKIP_BUILD_PROJECTS, so every project whose check target is emitted in
\* project_check_targets is built or is in the build-skip set.
C23_TestedProjectsBuilt ==
    Returned =>
        /\ call.projects_to_test \ SKIP_BUILD_PROJECTS
               \subseteq call.projects_to_build
        /\ \A target \in Range(call.project_check_targets) :
               ProjectOf(target) \in call.projects_to_build \cup SKIP_BUILD_PROJECTS

\* A change under clang/lib/CIR: clang and CIR are tested and their targets
\* emitted; clang is built, CIR is in the build-skip set and is not.
C23_Witness ==
    /\ Returned
    /\ {"clang", "CIR"} \subseteq call.projects_to_test
    /\ {"check-clang", "check-clang-cir"} \subseteq Range(call.project_check_targets)
    /\ "clang" \in call.projects_to_build
    /\ "CIR" \notin call.projects_to_build
    /\ call.projects_to_test \ SKIP_BUILD_PROJECTS # {}

(***************************************************************************)
(* C24                                                                     *)
(***************************************************************************)
\* The POSTs made so far went to the first URLs of the list, in list order,
\* each with the prepared payload, and each has its own line of output that
\* tells whether it failed.
PostsInListOrder ==
    /\ Len(upload.posts) = upload.index
    /\ Len(upload.printed) = upload.index
    /\ upload.index <= Len(upload.urls)
    /\ \A i \in 1..Len(upload.posts) :
           /\ upload.posts[i].url = upload.urls[i]
           /\ upload.posts[i].json = upload.upload_data
           /\ upload.printed[i] =
                  IF upload.posts[i].answer = "ok"
                  THEN "Successfully uploaded to " \o upload.urls[i]
                  ELSE "Failed to upload to " \o upload.urls[i] \o ": "
                           \o (CHOOSE a \in Answers :
                                   a.kind = upload.posts[i].answer).error

\* C24 (as claimed): every call of upload_to_all_instances ends by
\* returning to its caller after one POST of the same payload to every
\* configured URL, in list order, whatever the answers were, each failure
\* reported for its URL only.
C24_UploadToAllInstances ==
    upload.entered =>
        /\ PostsInListOrder
        /\ upload.pc = "done" =>
               /\ upload.outcome = "returned"
               /\ Len(upload.posts) = Len(upload.urls)

=============================================================================
